---- MODULE Spec2Model ----
(***************************************************************************)
(* Model of the argus-demo-finance calculators.  The library is a set of   *)
(* pure integer functions; each is an operator below, computed branch by   *)
(* branch as the Python source computes it.  The state records the last    *)
(* call made by a client: the function called, its arguments and the value *)
(* it returned.  Under Spec a behaviour is one call: Init draws the         *)
(* function and its arguments, the call's action applies the function to   *)
(* them.  The functions keep no state of their own: a client that works on *)
(* an account holds its balances in account and passes them to each call   *)
(* (SpecSavings, SpecWallet, SpecTransfer, SpecCard, SpecLoan, SpecDaily,  *)
(* SpecWalletPair); SpecWalletManager keeps the balance of the one class   *)
(* of the repository there.  locals is the frame of a call whose loop is   *)
(* run one iteration at a time, or of a transfer between its two legs.     *)
(* heap is the store of the dictionaries the investment portfolio          *)
(* functions work on, each reached by reference (SpecPortfolio).           *)
(***************************************************************************)
EXTENDS Integers, Sequences, FiniteSets, TLC

VARIABLES op, args, result, pc, account, locals, heap

vars == <<op, args, result, pc, account, locals, heap>>

(* ------------------------------ bounds --------------------------------- *)

\* Arguments range over -MaxVal..MaxVal, plus the values of the documented
\* scenarios where a function has one.
MaxVal == 4

Vals == (-MaxVal)..MaxVal

\* credit-card scenario values (creditSystem.py docstring examples)
ChargeVals == Vals \cup {50, 100, 900, 950, 1000}

\* calculate_return(100, 0)
ReturnVals == Vals \cup {100}

\* account type codes: the five known codes, negative codes and code 99
TypeCodes == Vals \cup {99}

BalanceVals == Vals \cup {600}

ApprovedVals == {-1, 0, 1, 2}

(* --------------------------- integer division -------------------------- *)

\* Quotient rounded toward zero (C-style division), for d > 0.
truncdiv(n, d) == IF n >= 0 THEN n \div d ELSE -((-n) \div d)

\* Python's // on integers: the quotient rounded toward negative infinity.
\* Every divisor in the modelled functions is positive.
floordiv(n, d) == n \div d

(* ----------------------- SECTION 1: accounts --------------------------- *)

\* variant: the guard on a negative balance is missing
calculate_minimum_balance_unguarded(account_type_code, balance) ==
    IF account_type_code = 0 THEN 100
    ELSE IF account_type_code = 1 THEN 500
    ELSE IF account_type_code = 2 THEN 2500
    ELSE IF account_type_code = 3 THEN 1000
    ELSE 0

calculate_minimum_balance(account_type_code, balance) ==
    IF balance < 0 THEN 0
    ELSE IF account_type_code = 0 THEN 100
    ELSE IF account_type_code = 1 THEN 500
    ELSE IF account_type_code = 2 THEN 2500
    ELSE IF account_type_code = 3 THEN 1000
    ELSE 0

\* variant: a withdrawal down to exactly the minimum is refused
check_sufficient_funds_strict(balance, amount, minimum_balance) ==
    IF balance < 0 \/ minimum_balance < 0 THEN 0
    ELSE IF amount <= 0 THEN 1
    ELSE LET remaining == balance - amount
         IN  IF remaining > minimum_balance THEN 1 ELSE 0

check_sufficient_funds(balance, amount, minimum_balance) ==
    IF balance < 0 \/ minimum_balance < 0 THEN 0
    ELSE IF amount <= 0 THEN 1
    ELSE LET remaining == balance - amount
         IN  IF remaining >= minimum_balance THEN 1 ELSE 0

\* variant: the floor comparison is strict
process_withdrawal_strict(balance, amount, minimum_balance) ==
    IF balance < 0 \/ minimum_balance < 0 THEN 0
    ELSE IF amount <= 0 THEN balance
    ELSE LET remaining == balance - amount
         IN  IF remaining > minimum_balance THEN remaining ELSE balance

\* variant: the withdrawal is checked against 0, not the minimum balance
process_withdrawal_nofloor(balance, amount, minimum_balance) ==
    IF balance < 0 \/ minimum_balance < 0 THEN 0
    ELSE IF amount <= 0 THEN balance
    ELSE LET remaining == balance - amount
         IN  IF remaining >= 0 THEN remaining ELSE balance

process_withdrawal(balance, amount, minimum_balance) ==
    IF balance < 0 \/ minimum_balance < 0 THEN 0
    ELSE IF amount <= 0 THEN balance
    ELSE LET remaining == balance - amount
         IN  IF remaining >= minimum_balance THEN remaining ELSE balance

\* variant: a non-positive amount is clamped to a zero balance
process_deposit_clamp(balance, amount) ==
    IF balance < 0 THEN 0
    ELSE IF amount <= 0 THEN 0
    ELSE balance + amount

process_deposit(balance, amount) ==
    IF balance < 0 THEN 0
    ELSE IF amount <= 0 THEN balance
    ELSE balance + amount

(* ---------------------- SECTION 3: transfers -------------------------- *)

\* variant: the fee is left out of the debit
process_transfer_source_nofee(source_balance, amount, fee) ==
    IF source_balance < 0 THEN 0
    ELSE LET amount1 == IF amount < 0 THEN 0 ELSE amount
             total_debit == amount1
         IN  IF source_balance >= total_debit
             THEN source_balance - total_debit
             ELSE source_balance

process_transfer_source(source_balance, amount, fee) ==
    IF source_balance < 0 THEN 0
    ELSE LET amount1 == IF amount < 0 THEN 0 ELSE amount
             fee1 == IF fee < 0 THEN 0 ELSE fee
             total_debit == amount1 + fee1
         IN  IF source_balance >= total_debit
             THEN source_balance - total_debit
             ELSE source_balance

\* variant: the credit is made whatever transfer_approved says
process_transfer_dest_always(dest_balance, amount, transfer_approved) ==
    IF dest_balance < 0 THEN 0
    ELSE IF amount < 0 THEN dest_balance
    ELSE dest_balance + amount

process_transfer_dest(dest_balance, amount, transfer_approved) ==
    IF dest_balance < 0 THEN 0
    ELSE IF amount < 0 THEN dest_balance
    ELSE IF transfer_approved = 1 THEN dest_balance + amount
    ELSE dest_balance

(* ------------------------- SECTION 4: loans ---------------------------- *)

apply_loan_payment(balance, principal_payment) ==
    IF balance < 0 THEN 0
    ELSE IF principal_payment < 0 THEN balance
    ELSE LET new_balance == balance - principal_payment
         IN  IF new_balance < 0 THEN 0 ELSE new_balance

(* ---------------------- SECTION 5: credit cards ------------------------ *)

\* variant: a zero charge is turned away with the negative ones
card_charge_outcome_nonzero(balance, charge, credit_limit) ==
    LET balance1 == IF balance < 0 THEN 0 ELSE balance
        credit_limit1 == IF credit_limit < 0 THEN 0 ELSE credit_limit
        new_balance == balance1 + charge
    IN  IF charge <= 0 THEN [applied |-> FALSE, balance |-> balance1]
        ELSE IF new_balance > credit_limit1
             THEN [applied |-> FALSE, balance |-> balance1]
        ELSE [applied |-> TRUE, balance |-> new_balance]

\* variant: a charge that reaches the limit exactly is declined
card_charge_outcome_strict(balance, charge, credit_limit) ==
    LET balance1 == IF balance < 0 THEN 0 ELSE balance
        credit_limit1 == IF credit_limit < 0 THEN 0 ELSE credit_limit
        new_balance == balance1 + charge
    IN  IF charge < 0 THEN [applied |-> FALSE, balance |-> balance1]
        ELSE IF new_balance >= credit_limit1
             THEN [applied |-> FALSE, balance |-> balance1]
        ELSE [applied |-> TRUE, balance |-> new_balance]

\* process_card_charge with the branch it took: applied is TRUE on the path
\* that returns new_balance, FALSE on the two paths that return balance.
card_charge_outcome(balance, charge, credit_limit) ==
    LET balance1 == IF balance < 0 THEN 0 ELSE balance
        credit_limit1 == IF credit_limit < 0 THEN 0 ELSE credit_limit
        new_balance == balance1 + charge
    IN  IF charge < 0 THEN [applied |-> FALSE, balance |-> balance1]
        ELSE IF new_balance > credit_limit1
             THEN [applied |-> FALSE, balance |-> balance1]
        ELSE [applied |-> TRUE, balance |-> new_balance]

process_card_charge(balance, charge, credit_limit) ==
    card_charge_outcome(balance, charge, credit_limit).balance

\* creditSystem.py
authorize_charge(current_balance, charge_amount, credit_limit) ==
    IF current_balance + charge_amount <= credit_limit
    THEN current_balance + charge_amount
    ELSE current_balance

(* ------------------- SECTIONS 8, 10: returns, margins ------------------ *)

BpsScale == 10000

FullLoss == -10000

\* variant: the return is scaled to percent, not basis points
calculate_return_percent(initial_value, final_value) ==
    IF initial_value <= 0 THEN 0
    ELSE IF final_value < 0 THEN FullLoss
    ELSE LET return_bps ==
                 floordiv((final_value - initial_value) * 100, initial_value)
         IN  IF return_bps < FullLoss THEN FullLoss ELSE return_bps

calculate_return(initial_value, final_value) ==
    IF initial_value <= 0 THEN 0
    ELSE IF final_value < 0 THEN FullLoss
    ELSE LET return_bps ==
                 floordiv((final_value - initial_value) * BpsScale,
                          initial_value)
         IN  IF return_bps < FullLoss THEN FullLoss ELSE return_bps

calculate_profit_margin(profit, revenue) ==
    IF revenue <= 0 THEN 0
    ELSE LET margin_bps == floordiv(profit * BpsScale, revenue)
         IN  IF margin_bps < FullLoss THEN FullLoss ELSE margin_bps

(* ------------------ SECTION 3: transaction fees ------------------------ *)

\* calculate_transaction_fee(10000, 250, 10, 100)
FeeAmountVals == Vals \cup {10000}

FeeBpsVals == Vals \cup {250}

MinFeeVals == Vals \cup {10}

MaxFeeVals == Vals \cup {100}

\* variant: a max_fee below min_fee is not raised to min_fee
calculate_transaction_fee_rawmax(amount, fee_bps, min_fee, max_fee) ==
    IF amount < 0 \/ fee_bps < 0 \/ min_fee < 0 THEN 0
    ELSE LET calculated_fee == floordiv(amount * fee_bps, BpsScale)
         IN  IF calculated_fee < min_fee THEN min_fee
             ELSE IF calculated_fee > max_fee THEN max_fee
             ELSE calculated_fee

calculate_transaction_fee(amount, fee_bps, min_fee, max_fee) ==
    IF amount < 0 \/ fee_bps < 0 \/ min_fee < 0 THEN 0
    ELSE LET max_fee1 == IF max_fee < min_fee THEN min_fee ELSE max_fee
             calculated_fee == floordiv(amount * fee_bps, BpsScale)
         IN  IF calculated_fee < min_fee THEN min_fee
             ELSE IF calculated_fee > max_fee1 THEN max_fee1
             ELSE calculated_fee

(* -------------------- SECTION 8: portfolio value ----------------------- *)

\* Sequences passed to the list functions have at most MaxLen entries.
MaxLen == 2

SeqVals == {-1, 0, 1, 2}

SeqsUpTo(S, n) == UNION {[1..k -> S] : k \in 0..n}

min(a, b) == IF a <= b THEN a ELSE b

\* variant: only the quantity is tested for positivity
RECURSIVE portfolio_loop_qtyonly(_, _, _, _, _)
portfolio_loop_qtyonly(quantities, prices, i, min_len, total) ==
    IF i > min_len THEN total
    ELSE LET qty == quantities[i]
             price == prices[i]
         IN  portfolio_loop_qtyonly(quantities, prices, i + 1, min_len,
                 IF qty > 0 THEN total + (qty * price) ELSE total)

\* the for loop of calculate_portfolio_value, from (1-based) index i on
RECURSIVE portfolio_loop(_, _, _, _, _)
portfolio_loop(quantities, prices, i, min_len, total) ==
    IF i > min_len THEN total
    ELSE LET qty == quantities[i]
             price == prices[i]
         IN  portfolio_loop(quantities, prices, i + 1, min_len,
                 IF qty > 0 /\ price > 0 THEN total + (qty * price)
                 ELSE total)

calculate_portfolio_value(quantities, prices) ==
    portfolio_loop(quantities, prices, 1,
                   min(Len(quantities), Len(prices)), 0)

(* ------------- balance-producing operations, continued ----------------- *)

create_account_balance(initial_deposit) ==
    IF initial_deposit < 0 THEN 0 ELSE initial_deposit

apply_interest_to_balance(balance, interest) ==
    IF balance < 0 THEN 0
    ELSE IF interest < 0 THEN balance
    ELSE balance + interest

\* variant: an overpayment is not floored at 0
apply_card_payment_nofloor(balance, payment) ==
    IF balance < 0 THEN 0
    ELSE IF payment < 0 THEN balance
    ELSE balance - payment

apply_card_payment(balance, payment) ==
    IF balance < 0 THEN 0
    ELSE IF payment < 0 THEN balance
    ELSE LET new_balance == balance - payment
         IN  IF new_balance < 0 THEN 0 ELSE new_balance

(* --------------------------- inventoryManager.py ----------------------- *)

\* product ids of the docstring example
IdVals == {101, 102, 103, 104}

add_product_id(existing_ids, new_id) == existing_ids \o <<new_id>>

(* ------------------------------ auditLogger.py ------------------------- *)

\* Event lists have at most MaxEvents codes.
MaxEvents == 4

\* 5 is an error, 9 a resolution, 1 stands for every other code
EventCodes == {1, 5, 9}

\* variant: an error still pending at the end is not reported
RECURSIVE validate_loop_noend(_, _, _)
validate_loop_noend(eventCodes, i, pendingError) ==
    IF i > Len(eventCodes) THEN 1
    ELSE LET code == eventCodes[i]
         IN  IF code = 5
             THEN IF pendingError = 1 THEN 0
                  ELSE validate_loop_noend(eventCodes, i + 1, 1)
             ELSE IF code = 9
             THEN IF pendingError = 0 THEN 0
                  ELSE validate_loop_noend(eventCodes, i + 1, 0)
             ELSE validate_loop_noend(eventCodes, i + 1, pendingError)

\* the for loop of validateEventSequence from the i-th code on, with its
\* early returns, and the check after the loop
RECURSIVE validate_loop(_, _, _)
validate_loop(eventCodes, i, pendingError) ==
    IF i > Len(eventCodes)
    THEN IF pendingError = 1 THEN 0 ELSE 1
    ELSE LET code == eventCodes[i]
         IN  IF code = 5
             THEN IF pendingError = 1 THEN 0
                  ELSE validate_loop(eventCodes, i + 1, 1)
             ELSE IF code = 9
             THEN IF pendingError = 0 THEN 0
                  ELSE validate_loop(eventCodes, i + 1, 0)
             ELSE validate_loop(eventCodes, i + 1, pendingError)

validateEventSequence(eventCodes) == validate_loop(eventCodes, 1, 0)

(* ---------------- SECTION 5: minimum card payment ---------------------- *)

CardBalanceVals == Vals \cup {10000}

PaymentPctVals == Vals \cup {200}

PaymentFloorVals == Vals \cup {25}

\* variant: the payment is not capped at the balance
calculate_minimum_payment_nocap(balance, min_payment_pct_bps, min_payment_floor) ==
    IF balance <= 0 THEN 0
    ELSE LET pct1 == IF min_payment_pct_bps < 0 THEN 0
                     ELSE min_payment_pct_bps
             floor1 == IF min_payment_floor < 0 THEN 0
                       ELSE min_payment_floor
             pct_payment == floordiv(balance * pct1, BpsScale)
         IN  IF pct_payment < floor1 THEN floor1 ELSE pct_payment

calculate_minimum_payment(balance, min_payment_pct_bps, min_payment_floor) ==
    IF balance <= 0 THEN 0
    ELSE LET pct1 == IF min_payment_pct_bps < 0 THEN 0
                     ELSE min_payment_pct_bps
             floor1 == IF min_payment_floor < 0 THEN 0
                       ELSE min_payment_floor
             pct_payment == floordiv(balance * pct1, BpsScale)
             min_payment == IF pct_payment < floor1 THEN floor1
                            ELSE pct_payment
         IN  IF min_payment > balance THEN balance ELSE min_payment

(* ------------------- SECTION 7: overdraft fee -------------------------- *)

\* variant: the cap is reached only after one fee too many
calculate_overdraft_fee_late(overdraft_amount, fee_per_occurrence, max_daily_fees, fees_today) ==
    IF overdraft_amount <= 0 THEN 0
    ELSE IF fee_per_occurrence < 0 THEN 0
    ELSE LET fees_today1 == IF fees_today < 0 THEN 0 ELSE fees_today
             max_daily_fees1 == IF max_daily_fees < 0 THEN 0
                                ELSE max_daily_fees
         IN  IF fees_today1 > max_daily_fees1 THEN 0
             ELSE fee_per_occurrence

calculate_overdraft_fee(overdraft_amount, fee_per_occurrence, max_daily_fees, fees_today) ==
    IF overdraft_amount <= 0 THEN 0
    ELSE IF fee_per_occurrence < 0 THEN 0
    ELSE LET fees_today1 == IF fees_today < 0 THEN 0 ELSE fees_today
             max_daily_fees1 == IF max_daily_fees < 0 THEN 0
                                ELSE max_daily_fees
         IN  IF fees_today1 >= max_daily_fees1 THEN 0
             ELSE fee_per_occurrence

(* ----------------------------- savingsAccount.py ---------------------- *)

savings_deposit(balance, amount) ==
    IF amount <= 0 THEN balance
    ELSE LET balance1 == IF balance < 0 THEN 0 ELSE balance
         IN  balance1 + amount

\* variant: the withdrawal is checked against the whole balance
savings_withdraw_nominimum(balance, amount, minimum_balance) ==
    IF amount <= 0 THEN balance
    ELSE LET balance1 == IF balance < 0 THEN 0 ELSE balance
             available == balance1
         IN  IF amount > available THEN balance1
             ELSE balance1 - amount

savings_withdraw(balance, amount, minimum_balance) ==
    IF amount <= 0 THEN balance
    ELSE LET balance1 == IF balance < 0 THEN 0 ELSE balance
             minimum_balance1 == IF minimum_balance < 0 THEN 0
                                 ELSE minimum_balance
             available0 == balance1 - minimum_balance1
             available == IF available0 < 0 THEN 0 ELSE available0
         IN  IF amount > available THEN balance1
             ELSE balance1 - amount

savings_apply_interest(balance, interest) ==
    LET balance1 == IF balance < 0 THEN 0 ELSE balance
    IN  IF interest <= 0 THEN balance1
        ELSE balance1 + interest

(* ------------------------------ walletSecure.py ------------------------ *)

wallet_deposit(balance, amount) ==
    IF amount <= 0 THEN balance
    ELSE balance + amount

wallet_withdraw(balance, amount) ==
    IF amount <= 0 THEN balance
    ELSE IF amount > balance THEN balance
    ELSE balance - amount

\* variant: the overdraft test of transfer is missing
wallet_transfer_overdraft(sender_balance, receiver_balance, amount) ==
    IF amount <= 0 THEN <<sender_balance, receiver_balance>>
    ELSE LET new_sender == sender_balance - amount
             new_receiver == receiver_balance + amount
         IN  <<new_sender, new_receiver>>

wallet_transfer(sender_balance, receiver_balance, amount) ==
    IF amount <= 0 THEN <<sender_balance, receiver_balance>>
    ELSE IF amount > sender_balance
         THEN <<sender_balance, receiver_balance>>
    ELSE LET new_sender == sender_balance - amount
             new_receiver == receiver_balance + amount
         IN  <<new_sender, new_receiver>>

(* ------------------- exceptions: //, indexing -------------------------- *)

\* What a Python call can raise in this integer code: n // d raises
\* ZeroDivisionError when d = 0, s[i] raises IndexError when i is out of
\* range.  A <fn>_raises operator follows the code of <fn> to each division
\* and index and tells what the call raises, "none" when it returns.
Exceptions == {"ZeroDivisionError", "IndexError"}

div_raises(d) == IF d = 0 THEN "ZeroDivisionError" ELSE "none"

\* s[i] for a 0-based i; Python also takes -len(s) .. -1
index_raises(s, i) ==
    IF i >= -Len(s) /\ i < Len(s) THEN "none" ELSE "IndexError"

\* s[i] for a 0-based, in-range i
py_index(s, i) == IF i >= 0 THEN s[i + 1] ELSE s[Len(s) + i + 1]

(* -------------- ratios: functions dividing by an argument -------------- *)

RatioVals == Vals \cup {10000}

\* variant: only a negative income is turned away
calculate_debt_to_income_ratio_raises_zero(monthly_debt, monthly_income) ==
    IF monthly_debt < 0 \/ monthly_income < 0 THEN "none"
    ELSE div_raises(monthly_income)

calculate_debt_to_income_ratio_raises(monthly_debt, monthly_income) ==
    IF monthly_debt < 0 \/ monthly_income <= 0 THEN "none"
    ELSE div_raises(monthly_income)

calculate_debt_to_income_ratio(monthly_debt, monthly_income) ==
    IF monthly_debt < 0 \/ monthly_income <= 0 THEN 0
    ELSE LET q == floordiv(monthly_debt * BpsScale, monthly_income)
         IN  IF q < 0 THEN 0 ELSE q

calculate_utilization_ratio_raises(balance, credit_limit) ==
    IF balance < 0 \/ credit_limit <= 0 THEN "none"
    ELSE div_raises(credit_limit)

calculate_utilization_ratio(balance, credit_limit) ==
    IF balance < 0 \/ credit_limit <= 0 THEN 0
    ELSE LET q == floordiv(balance * BpsScale, credit_limit)
         IN  IF q < 0 THEN 0 ELSE q

calculate_position_weight_raises(position_value, portfolio_value) ==
    IF position_value < 0 \/ portfolio_value <= 0 THEN "none"
    ELSE div_raises(portfolio_value)

calculate_position_weight(position_value, portfolio_value) ==
    IF position_value < 0 \/ portfolio_value <= 0 THEN 0
    ELSE LET q == floordiv(position_value * BpsScale, portfolio_value)
         IN  IF q < 0 THEN 0 ELSE q

calculate_dividend_yield_raises(annual_dividend, share_price) ==
    IF annual_dividend < 0 \/ share_price <= 0 THEN "none"
    ELSE div_raises(share_price)

calculate_dividend_yield(annual_dividend, share_price) ==
    IF annual_dividend < 0 \/ share_price <= 0 THEN 0
    ELSE LET q == floordiv(annual_dividend * BpsScale, share_price)
         IN  IF q < 0 THEN 0 ELSE q

calculate_cost_basis_average_raises(total_cost, total_shares) ==
    IF total_cost < 0 \/ total_shares <= 0 THEN "none"
    ELSE div_raises(total_shares)

calculate_cost_basis_average(total_cost, total_shares) ==
    IF total_cost < 0 \/ total_shares <= 0 THEN 0
    ELSE LET q == floordiv(total_cost, total_shares)
         IN  q

calculate_expense_ratio_raises(expenses, revenue) ==
    IF expenses < 0 \/ revenue <= 0 THEN "none"
    ELSE div_raises(revenue)

calculate_expense_ratio(expenses, revenue) ==
    IF expenses < 0 \/ revenue <= 0 THEN 0
    ELSE LET q == floordiv(expenses * BpsScale, revenue)
         IN  IF q < 0 THEN 0 ELSE q

(* ----------- exceptions of the functions modelled above ---------------- *)

calculate_return_raises(initial_value, final_value) ==
    IF initial_value <= 0 THEN "none"
    ELSE IF final_value < 0 THEN "none"
    ELSE div_raises(initial_value)

calculate_profit_margin_raises(profit, revenue) ==
    IF revenue <= 0 THEN "none"
    ELSE div_raises(revenue)

\* the two index expressions of each iteration i (0-based) of a loop over
\* range(min_len) on two parallel lists
RECURSIVE pair_loop_raises(_, _, _, _)
pair_loop_raises(xs, ys, i, min_len) ==
    IF i >= min_len THEN "none"
    ELSE IF index_raises(xs, i) # "none" THEN index_raises(xs, i)
    ELSE IF index_raises(ys, i) # "none" THEN index_raises(ys, i)
    ELSE pair_loop_raises(xs, ys, i + 1, min_len)

calculate_portfolio_value_raises(quantities, prices) ==
    pair_loop_raises(quantities, prices, 0,
                     min(Len(quantities), Len(prices)))

(* --------------------- more loops over lists --------------------------- *)

RECURSIVE dividends_loop(_, _, _, _, _)
dividends_loop(quantities, dividends_per_share, i, min_len, total) ==
    IF i >= min_len THEN total
    ELSE LET qty == py_index(quantities, i)
             div == py_index(dividends_per_share, i)
         IN  dividends_loop(quantities, dividends_per_share, i + 1, min_len,
                 IF qty > 0 /\ div > 0 THEN total + (qty * div) ELSE total)

sum_portfolio_dividends(quantities, dividends_per_share) ==
    dividends_loop(quantities, dividends_per_share, 0,
                   min(Len(quantities), Len(dividends_per_share)), 0)

sum_portfolio_dividends_raises(quantities, dividends_per_share) ==
    pair_loop_raises(quantities, dividends_per_share, 0,
                     min(Len(quantities), Len(dividends_per_share)))

\* total and count of the entries of amounts from the i-th on that are
\* at least lowest, added to total and count
RECURSIVE total_and_count(_, _, _, _, _)
total_and_count(amounts, i, lowest, total, count) ==
    IF i > Len(amounts) THEN [total |-> total, count |-> count]
    ELSE IF amounts[i] >= lowest
         THEN total_and_count(amounts, i + 1, lowest,
                              total + amounts[i], count + 1)
    ELSE total_and_count(amounts, i + 1, lowest, total, count)

calculate_average_transaction_raises(amounts) ==
    LET tc == total_and_count(amounts, 1, 1, 0, 0)
    IN  IF tc.count = 0 THEN "none" ELSE div_raises(tc.count)

calculate_average_transaction(amounts) ==
    LET tc == total_and_count(amounts, 1, 1, 0, 0)
    IN  IF tc.count = 0 THEN 0 ELSE floordiv(tc.total, tc.count)

calculate_average_balance_raises(balances) ==
    LET tc == total_and_count(balances, 1, 0, 0, 0)
    IN  IF tc.count = 0 THEN "none" ELSE div_raises(tc.count)

calculate_average_balance(balances) ==
    LET tc == total_and_count(balances, 1, 0, 0, 0)
    IN  IF tc.count = 0 THEN 0 ELSE floordiv(tc.total, tc.count)

(* ---------------------- SECTION 4: monthly payment --------------------- *)

MonthsInBps == 120000

calculate_monthly_payment_raises(principal, annual_rate_bps, term_months) ==
    IF principal < 0 THEN "none"
    ELSE IF annual_rate_bps < 0 THEN "none"
    ELSE IF term_months <= 0 THEN "none"
    ELSE div_raises(term_months)

calculate_monthly_payment(principal, annual_rate_bps, term_months) ==
    IF principal < 0 THEN 0
    ELSE IF annual_rate_bps < 0 THEN 0
    ELSE IF term_months <= 0 THEN 0
    ELSE LET monthly_principal == floordiv(principal, term_months)
             monthly_interest ==
                 floordiv(principal * annual_rate_bps, MonthsInBps)
             payment == monthly_principal + monthly_interest
         IN  IF payment < 0 THEN 0 ELSE payment

(* ------------- SECTION 2: the loops over range(n) ---------------------- *)

LoopPrincipalVals == {-1, 0, 1, 10000}

LoopRateVals == {-1, 0, 500, 10000}

AprVals == {-1, 0, 500, 1200}

\* one pass of the loop body of calculate_compound_interest_annual
compound_step(amount, rate_bps) ==
    LET interest == floordiv(amount * rate_bps, BpsScale)
    IN  amount + interest

\* one pass of the loop body of calculate_apy_from_apr
apy_step(multiplier, periodic_rate) ==
    floordiv(multiplier * (BpsScale + periodic_rate), BpsScale)


(* ------------------------ investment portfolio ------------------------- *)

\* investmentPortfolio.py: a portfolio is a dict from symbol to a dict with
\* the keys quantity and avg_cost.  Python reaches both kinds of dict by
\* reference: heap.portfolios[p] is the portfolio with reference p, a
\* function from its symbols to references into heap.positions, and
\* heap.positions[d] is the inner dict with reference d.
Symbols == {"AAPL", "MSFT"}

\* d[k] = v on a dict d
dict_set(d, k, v) == [x \in DOMAIN d \cup {k} |-> IF x = k THEN v ELSE d[x]]

\* del d[k]
dict_del(d, k) == [x \in DOMAIN d \ {k} |-> d[x]]

\* portfolio.get(symbol, {'quantity': 0, 'avg_cost': 0})
current_data(h, portfolio, symbol) == IF symbol \in DOMAIN h.portfolios[portfolio] THEN h.positions[h.portfolios[portfolio][symbol]] ELSE [quantity |-> 0, avg_cost |-> 0]

\* variant: the new position is stored in the portfolio passed in
buy_stock_inplace(h, portfolio, symbol, quantity, price) ==
    IF quantity <= 0 \/ price <= 0
    THEN [heap |-> h, portfolio |-> portfolio]
    ELSE LET current_qty == current_data(h, portfolio, symbol).quantity
             current_cost == current_data(h, portfolio, symbol).avg_cost
             total_cost == (current_qty * current_cost) + (quantity * price)
             new_qty == current_qty + quantity
             new_data == Len(h.positions) + 1
         IN  [heap |->
                [portfolios |->
                    [h.portfolios EXCEPT
                       ![portfolio] = dict_set(@, symbol, new_data)],
                 positions |->
                    Append(h.positions,
                           [quantity |-> new_qty,
                            avg_cost |-> floordiv(total_cost, new_qty)])],
              portfolio |-> portfolio]

\* Returns the heap after the call and the reference the call returns.
buy_stock(h, portfolio, symbol, quantity, price) ==
    IF quantity <= 0 \/ price <= 0
    THEN [heap |-> h, portfolio |-> portfolio]
    ELSE LET new_portfolio == Len(h.portfolios) + 1
             current_qty == current_data(h, portfolio, symbol).quantity
             current_cost == current_data(h, portfolio, symbol).avg_cost
             total_cost == (current_qty * current_cost) + (quantity * price)
             new_qty == current_qty + quantity
             new_data == Len(h.positions) + 1
         IN  [heap |->
                [portfolios |->
                    Append(h.portfolios,
                           dict_set(h.portfolios[portfolio], symbol,
                                    new_data)),
                 positions |->
                    Append(h.positions,
                           [quantity |-> new_qty,
                            avg_cost |-> floordiv(total_cost, new_qty)])],
              portfolio |-> new_portfolio]

\* variant: a position sold down to 0 shares stays in the portfolio
sell_stock_keepzero(h, portfolio, symbol, quantity, price) ==
    IF quantity <= 0 \/ price <= 0
    THEN [heap |-> h, portfolio |-> portfolio]
    ELSE IF symbol \notin DOMAIN h.portfolios[portfolio]
    THEN [heap |-> h, portfolio |-> portfolio]
    ELSE LET data == h.positions[h.portfolios[portfolio][symbol]]
             current_qty == data.quantity
             new_qty == current_qty - quantity
             new_portfolio == Len(h.portfolios) + 1
             new_data == Len(h.positions) + 1
         IN  IF quantity > current_qty
             THEN [heap |-> h, portfolio |-> portfolio]
             ELSE [heap |->
                     [portfolios |->
                         Append(h.portfolios,
                                dict_set(h.portfolios[portfolio], symbol,
                                         new_data)),
                      positions |->
                         Append(h.positions,
                                [quantity |-> new_qty,
                                 avg_cost |-> data.avg_cost])],
                   portfolio |-> new_portfolio]

sell_stock(h, portfolio, symbol, quantity, price) ==
    IF quantity <= 0 \/ price <= 0
    THEN [heap |-> h, portfolio |-> portfolio]
    ELSE IF symbol \notin DOMAIN h.portfolios[portfolio]
    THEN [heap |-> h, portfolio |-> portfolio]
    ELSE LET data == h.positions[h.portfolios[portfolio][symbol]]
             current_qty == data.quantity
             new_qty == current_qty - quantity
             new_portfolio == Len(h.portfolios) + 1
             new_data == Len(h.positions) + 1
         IN  IF quantity > current_qty
             THEN [heap |-> h, portfolio |-> portfolio]
             ELSE IF new_qty = 0
             THEN [heap |->
                     [h EXCEPT !.portfolios =
                         Append(@, dict_del(h.portfolios[portfolio],
                                            symbol))],
                   portfolio |-> new_portfolio]
             ELSE [heap |->
                     [portfolios |->
                         Append(h.portfolios,
                                dict_set(h.portfolios[portfolio], symbol,
                                         new_data)),
                      positions |->
                         Append(h.positions,
                                [quantity |-> new_qty,
                                 avg_cost |-> data.avg_cost])],
                   portfolio |-> new_portfolio]


(* --------------------------- wallet manager ---------------------------- *)

\* walletManager.py keeps its balance as a Python float
\* (self.balance = float(initial_balance)).  A float is modelled as a
\* record: a finite value, an infinity with its sign in value, or nan.
\* Finite values are the integers with at most MantissaBits significant
\* bits and a binary exponent of at most MaxExponent: the double format
\* scaled down from its 53 significant bits.
MantissaBits == 3

MaxExponent == 2

RECURSIVE Pow2(_)
Pow2(n) == IF n = 0 THEN 1 ELSE 2 * Pow2(n - 1)

Finite(v) == [kind |-> "finite", value |-> v]

Inf == [kind |-> "inf", value |-> 1]

NegInf == [kind |-> "inf", value |-> -1]

NaN == [kind |-> "nan", value |-> 0]

\* sys.float_info.max of the scaled-down format
MaxFinite == (Pow2(MantissaBits) - 1) * Pow2(MaxExponent)

\* the spacing of the floats around x >= 0, found from spacing q upward
RECURSIVE quantum(_, _)
quantum(x, q) == IF x < Pow2(MantissaBits) * q THEN q ELSE quantum(x, 2 * q)

\* x >= 0 rounded to the nearest number with MantissaBits significant
\* bits, a tie going to the even mantissa
round_half_even(x) ==
    LET q == quantum(x, 1)
        lo == (x \div q) * q
        rem == x - lo
    IN  IF 2 * rem < q THEN lo
        ELSE IF 2 * rem > q THEN lo + q
        ELSE IF (x \div q) % 2 = 0 THEN lo
        ELSE lo + q

\* the result of an operation whose exact value is the integer x: the
\* float nearest to x, an infinity past the largest finite float
float_nearest(x) ==
    LET magnitude == round_half_even(IF x < 0 THEN -x ELSE x)
    IN  IF magnitude > MaxFinite THEN (IF x < 0 THEN NegInf ELSE Inf)
        ELSE Finite(IF x < 0 THEN -magnitude ELSE magnitude)

\* a + b on floats
float_add(a, b) ==
    IF a.kind = "nan" \/ b.kind = "nan" THEN NaN
    ELSE IF a.kind = "inf" /\ b.kind = "inf"
    THEN (IF a.value = b.value THEN a ELSE NaN)
    ELSE IF a.kind = "inf" THEN a
    ELSE IF b.kind = "inf" THEN b
    ELSE float_nearest(a.value + b.value)

\* -a
float_neg(a) == IF a.kind = "nan" THEN NaN ELSE [a EXCEPT !.value = -@]

\* a - b on floats
float_sub(a, b) == float_add(a, float_neg(b))

\* a > b on floats: False when either is nan
float_gt(a, b) ==
    IF a.kind = "nan" \/ b.kind = "nan" THEN FALSE
    ELSE IF a.kind = "inf" /\ b.kind = "inf" THEN a.value > b.value
    ELSE IF a.kind = "inf" THEN a.value > 0
    ELSE IF b.kind = "inf" THEN b.value < 0
    ELSE a.value > b.value

\* a >= b on floats: False when either is nan
float_ge(a, b) == float_gt(a, b) \/ (a.kind # "nan" /\ a = b)

\* WalletManager.__init__ for an integer initial_balance of at most
\* MaxFinite: float(initial_balance)
WalletManager_init(initial_balance) == float_nearest(initial_balance)

\* WalletManager.deposit: the balance after the call and the value returned
WalletManager_deposit(balance, amount) ==
    IF float_gt(amount, Finite(0))
    THEN [balance |-> float_add(balance, amount), returned |-> TRUE]
    ELSE [balance |-> balance, returned |-> FALSE]

\* variant: the check amount > 0 is missing (the code before its fix)
WalletManager_withdraw_unfixed(balance, amount) ==
    IF float_ge(balance, amount)
    THEN [balance |-> float_sub(balance, amount), returned |-> TRUE]
    ELSE [balance |-> balance, returned |-> FALSE]

\* WalletManager.withdraw
WalletManager_withdraw(balance, amount) ==
    IF float_gt(amount, Finite(0)) /\ float_ge(balance, amount)
    THEN [balance |-> float_sub(balance, amount), returned |-> TRUE]
    ELSE [balance |-> balance, returned |-> FALSE]


(* ------------------------ available credit ----------------------------- *)

\* variant: the balance already owed is not subtracted
calculate_available_credit_nobalance(credit_limit, current_balance) ==
    IF credit_limit < 0 THEN 0
    ELSE credit_limit

calculate_available_credit(credit_limit, current_balance) ==
    IF credit_limit < 0 THEN 0
    ELSE LET current_balance1 == IF current_balance < 0 THEN 0 ELSE current_balance
             available == credit_limit - current_balance1
         IN  IF available < 0 THEN 0 ELSE available


(* ------------------ SECTION 4: the parts of a payment ------------------ *)

\* variant: a whole year's interest is charged each month
calculate_loan_interest_portion_annual(balance, annual_rate_bps) ==
    IF balance < 0 \/ annual_rate_bps < 0 THEN 0
    ELSE LET monthly_interest == floordiv(balance * annual_rate_bps, BpsScale)
         IN  IF monthly_interest < 0 THEN 0 ELSE monthly_interest

calculate_loan_interest_portion(balance, annual_rate_bps) ==
    IF balance < 0 \/ annual_rate_bps < 0 THEN 0
    ELSE LET monthly_interest == floordiv(balance * annual_rate_bps, MonthsInBps)
         IN  IF monthly_interest < 0 THEN 0 ELSE monthly_interest

calculate_principal_portion(payment, interest) ==
    IF payment < 0 \/ interest < 0 THEN 0
    ELSE LET principal == payment - interest
         IN  IF principal < 0 THEN 0 ELSE principal


(* -------------------- SECTION 7: daily limits -------------------------- *)

\* variant: a transaction that reaches the limit exactly is refused
check_transaction_limit_strict(amount, daily_total, daily_limit) ==
    IF amount < 0 \/ daily_total < 0 \/ daily_limit < 0 THEN 0
    ELSE LET new_total == daily_total + amount
         IN  IF new_total < daily_limit THEN 1 ELSE 0

check_transaction_limit(amount, daily_total, daily_limit) ==
    IF amount < 0 \/ daily_total < 0 \/ daily_limit < 0 THEN 0
    ELSE LET new_total == daily_total + amount
         IN  IF new_total <= daily_limit THEN 1 ELSE 0

calculate_remaining_daily_limit(daily_total, daily_limit) ==
    IF daily_total < 0 \/ daily_limit < 0 THEN 0
    ELSE LET remaining == daily_limit - daily_total
         IN  IF remaining < 0 THEN 0 ELSE remaining


(* ------------------------- walletBuggy(fixed).py ----------------------- *)

walletfixed_deposit(balance, amount) ==
    IF amount < 0 THEN balance
    ELSE balance + amount

\* variant: the overdraft check is missing
walletfixed_withdraw_overdraft(balance, amount) ==
    IF amount < 0 THEN balance
    ELSE balance - amount

walletfixed_withdraw(balance, amount) ==
    IF amount < 0 THEN balance
    ELSE IF amount > balance THEN balance
    ELSE balance - amount

walletfixed_transfer(sender_balance, receiver_balance, amount) ==
    IF amount < 0 THEN <<sender_balance, receiver_balance>>
    ELSE IF amount > sender_balance THEN <<sender_balance, receiver_balance>>
    ELSE LET new_sender == sender_balance - amount
             new_receiver == receiver_balance + amount
         IN  <<new_sender, new_receiver>>

(* ------------------------------ calls ---------------------------------- *)

\* The calls a client can make: the function's name with its arguments.
Inputs ==
    ({"calculate_minimum_balance"} \X (TypeCodes \X BalanceVals))
    \cup ({"process_withdrawal"} \X (Vals \X Vals \X Vals))
    \cup ({"process_deposit"} \X (Vals \X Vals))
    \cup ({"process_transfer_source"} \X (Vals \X Vals \X Vals))
    \cup ({"process_transfer_dest"} \X (Vals \X Vals \X ApprovedVals))
    \cup ({"apply_loan_payment"} \X (Vals \X Vals))
    \cup ({"process_card_charge"} \X (ChargeVals \X ChargeVals \X ChargeVals))
    \cup ({"authorize_charge"} \X (ChargeVals \X ChargeVals \X ChargeVals))
    \cup ({"calculate_return"} \X (ReturnVals \X ReturnVals))
    \cup ({"calculate_profit_margin"} \X (Vals \X Vals))
    \cup ({"calculate_transaction_fee"}
          \X (FeeAmountVals \X FeeBpsVals \X MinFeeVals \X MaxFeeVals))
    \cup ({"calculate_portfolio_value"}
          \X ((SeqsUpTo(SeqVals, MaxLen) \X SeqsUpTo(SeqVals, MaxLen))
              \cup {<<(<<10, 5>>), (<<100>>)>>}))
    \cup ({"create_account_balance"} \X {<<d>> : d \in Vals})
    \cup ({"apply_interest_to_balance"} \X (Vals \X Vals))
    \cup ({"apply_card_payment"} \X (Vals \X Vals))
    \cup ({"add_product_id"} \X (SeqsUpTo(IdVals, MaxLen) \X IdVals))
    \cup ({"validateEventSequence"}
          \X {<<s>> : s \in SeqsUpTo(EventCodes, MaxEvents)})
    \cup ({"calculate_minimum_payment"}
          \X (CardBalanceVals \X PaymentPctVals \X PaymentFloorVals))
    \cup ({"calculate_overdraft_fee"} \X (Vals \X Vals \X Vals \X Vals))
    \cup ({"calculate_debt_to_income_ratio"} \X (RatioVals \X Vals))
    \cup ({"calculate_utilization_ratio"} \X (RatioVals \X Vals))
    \cup ({"calculate_position_weight"} \X (RatioVals \X Vals))
    \cup ({"calculate_dividend_yield"} \X (RatioVals \X Vals))
    \cup ({"calculate_cost_basis_average"} \X (RatioVals \X Vals))
    \cup ({"calculate_expense_ratio"} \X (RatioVals \X Vals))
    \cup ({"sum_portfolio_dividends"}
          \X (SeqsUpTo(SeqVals, MaxLen) \X SeqsUpTo(SeqVals, MaxLen)))
    \cup ({"calculate_average_transaction"}
          \X {<<s>> : s \in SeqsUpTo(SeqVals, MaxLen)})
    \cup ({"calculate_average_balance"}
          \X {<<s>> : s \in SeqsUpTo(SeqVals, MaxLen)})
    \cup ({"calculate_monthly_payment"} \X (RatioVals \X Vals \X Vals))
    \cup ({"calculate_compound_interest_annual"}
          \X (LoopPrincipalVals \X LoopRateVals \X Vals))
    \cup ({"calculate_apy_from_apr"} \X (AprVals \X Vals))
    \cup ({"check_sufficient_funds"} \X (Vals \X Vals \X Vals))

Return(name, r) ==
    /\ pc = "call"
    /\ op = name
    /\ result' = r
    /\ pc' = "done"
    /\ UNCHANGED <<op, args, account, locals, heap>>

\* the call ends: it returns r, or it raises and returns nothing
Complete(name, raised, r) ==
    /\ pc = "call"
    /\ op = name
    /\ pc' = IF raised = "none" THEN "done" ELSE raised
    /\ result' = IF raised = "none" THEN r ELSE result
    /\ UNCHANGED <<op, args, account, locals, heap>>

Call_calculate_minimum_balance ==
    Return("calculate_minimum_balance",
           calculate_minimum_balance(args[1], args[2]))

Call_process_withdrawal ==
    Return("process_withdrawal",
           process_withdrawal(args[1], args[2], args[3]))

Call_process_deposit ==
    Return("process_deposit", process_deposit(args[1], args[2]))

Call_process_transfer_source ==
    Return("process_transfer_source",
           process_transfer_source(args[1], args[2], args[3]))

Call_process_transfer_dest ==
    Return("process_transfer_dest",
           process_transfer_dest(args[1], args[2], args[3]))

Call_apply_loan_payment ==
    Return("apply_loan_payment", apply_loan_payment(args[1], args[2]))

Call_process_card_charge ==
    Return("process_card_charge",
           process_card_charge(args[1], args[2], args[3]))

Call_authorize_charge ==
    Return("authorize_charge", authorize_charge(args[1], args[2], args[3]))

Call_calculate_return ==
    Complete("calculate_return",
             calculate_return_raises(args[1], args[2]),
             calculate_return(args[1], args[2]))

Call_calculate_profit_margin ==
    Complete("calculate_profit_margin",
             calculate_profit_margin_raises(args[1], args[2]),
             calculate_profit_margin(args[1], args[2]))

Call_calculate_transaction_fee ==
    Return("calculate_transaction_fee",
           calculate_transaction_fee(args[1], args[2], args[3], args[4]))

Call_calculate_portfolio_value ==
    Complete("calculate_portfolio_value",
             calculate_portfolio_value_raises(args[1], args[2]),
             calculate_portfolio_value(args[1], args[2]))

Call_create_account_balance ==
    Return("create_account_balance", create_account_balance(args[1]))

Call_apply_interest_to_balance ==
    Return("apply_interest_to_balance",
           apply_interest_to_balance(args[1], args[2]))

Call_apply_card_payment ==
    Return("apply_card_payment", apply_card_payment(args[1], args[2]))

Call_add_product_id ==
    Return("add_product_id", add_product_id(args[1], args[2]))

Call_validateEventSequence ==
    Return("validateEventSequence", validateEventSequence(args[1]))

Call_calculate_minimum_payment ==
    Return("calculate_minimum_payment",
           calculate_minimum_payment(args[1], args[2], args[3]))

Call_calculate_overdraft_fee ==
    Return("calculate_overdraft_fee",
           calculate_overdraft_fee(args[1], args[2], args[3], args[4]))

Call_calculate_debt_to_income_ratio ==
    Complete("calculate_debt_to_income_ratio",
             calculate_debt_to_income_ratio_raises(args[1], args[2]),
             calculate_debt_to_income_ratio(args[1], args[2]))

Call_calculate_utilization_ratio ==
    Complete("calculate_utilization_ratio",
             calculate_utilization_ratio_raises(args[1], args[2]),
             calculate_utilization_ratio(args[1], args[2]))

Call_calculate_position_weight ==
    Complete("calculate_position_weight",
             calculate_position_weight_raises(args[1], args[2]),
             calculate_position_weight(args[1], args[2]))

Call_calculate_dividend_yield ==
    Complete("calculate_dividend_yield",
             calculate_dividend_yield_raises(args[1], args[2]),
             calculate_dividend_yield(args[1], args[2]))

Call_calculate_cost_basis_average ==
    Complete("calculate_cost_basis_average",
             calculate_cost_basis_average_raises(args[1], args[2]),
             calculate_cost_basis_average(args[1], args[2]))

Call_calculate_expense_ratio ==
    Complete("calculate_expense_ratio",
             calculate_expense_ratio_raises(args[1], args[2]),
             calculate_expense_ratio(args[1], args[2]))

Call_sum_portfolio_dividends ==
    Complete("sum_portfolio_dividends",
             sum_portfolio_dividends_raises(args[1], args[2]),
             sum_portfolio_dividends(args[1], args[2]))

Call_calculate_average_transaction ==
    Complete("calculate_average_transaction",
             calculate_average_transaction_raises(args[1]),
             calculate_average_transaction(args[1]))

Call_calculate_average_balance ==
    Complete("calculate_average_balance",
             calculate_average_balance_raises(args[1]),
             calculate_average_balance(args[1]))

Call_calculate_monthly_payment ==
    Complete("calculate_monthly_payment",
             calculate_monthly_payment_raises(args[1], args[2], args[3]),
             calculate_monthly_payment(args[1], args[2], args[3]))

\* calculate_compound_interest_annual(principal, rate_bps, years), its loop
\* run one iteration per step; locals.i counts the iterations done
Enter_calculate_compound_interest_annual ==
    /\ pc = "call"
    /\ op = "calculate_compound_interest_annual"
    /\ IF args[1] < 0 \/ args[2] < 0 \/ args[3] < 0
       THEN /\ pc' = "done"
            /\ result' = 0
            /\ UNCHANGED locals
       ELSE /\ pc' = "loop"
            /\ locals' = [amount |-> args[1], i |-> 0]
            /\ UNCHANGED result
    /\ UNCHANGED <<op, args, account, heap>>

Step_calculate_compound_interest_annual ==
    /\ pc = "loop"
    /\ op = "calculate_compound_interest_annual"
    /\ locals.i < args[3]
    /\ locals' = [amount |-> compound_step(locals.amount, args[2]),
                  i |-> locals.i + 1]
    /\ UNCHANGED <<op, args, result, pc, account, heap>>

Exit_calculate_compound_interest_annual ==
    /\ pc = "loop"
    /\ op = "calculate_compound_interest_annual"
    /\ locals.i >= args[3]
    /\ result' = locals.amount
    /\ pc' = "done"
    /\ locals' = <<>>
    /\ UNCHANGED <<op, args, account, heap>>

\* calculate_apy_from_apr(apr_bps, compounds_per_year), likewise
Enter_calculate_apy_from_apr ==
    /\ pc = "call"
    /\ op = "calculate_apy_from_apr"
    /\ IF args[1] < 0
       THEN pc' = "done" /\ result' = 0 /\ UNCHANGED locals
       ELSE IF args[2] <= 0
       THEN pc' = "done" /\ result' = args[1] /\ UNCHANGED locals
       ELSE IF div_raises(args[2]) # "none"
       THEN pc' = div_raises(args[2]) /\ UNCHANGED <<result, locals>>
       ELSE /\ pc' = "loop"
            /\ locals' = [periodic_rate |-> floordiv(args[1], args[2]),
                          multiplier |-> BpsScale,
                          i |-> 0]
            /\ UNCHANGED result
    /\ UNCHANGED <<op, args, account, heap>>

Step_calculate_apy_from_apr ==
    /\ pc = "loop"
    /\ op = "calculate_apy_from_apr"
    /\ locals.i < args[2]
    /\ locals' = [locals EXCEPT
                    !.multiplier = apy_step(locals.multiplier,
                                            locals.periodic_rate),
                    !.i = locals.i + 1]
    /\ UNCHANGED <<op, args, result, pc, account, heap>>

Exit_calculate_apy_from_apr ==
    /\ pc = "loop"
    /\ op = "calculate_apy_from_apr"
    /\ locals.i >= args[2]
    /\ LET apy == locals.multiplier - BpsScale
       IN  result' = IF apy < 0 THEN 0 ELSE apy
    /\ pc' = "done"
    /\ locals' = <<>>
    /\ UNCHANGED <<op, args, account, heap>>

Call_check_sufficient_funds ==
    Return("check_sufficient_funds",
           check_sufficient_funds(args[1], args[2], args[3]))

\* Before the call returns result holds no value of the call: 0 for a
\* function that returns an integer, the empty list for one that returns a
\* list.
Init ==
    /\ pc = "call"
    /\ \E i \in Inputs :
           /\ op = i[1]
           /\ args = i[2]
           /\ result = IF i[1] = "add_product_id" THEN <<>> ELSE 0
    /\ account = <<>>
    /\ locals = <<>>
    /\ heap = <<>>

Next ==
    \/ Call_calculate_minimum_balance
    \/ Call_process_withdrawal
    \/ Call_process_deposit
    \/ Call_process_transfer_source
    \/ Call_process_transfer_dest
    \/ Call_apply_loan_payment
    \/ Call_process_card_charge
    \/ Call_authorize_charge
    \/ Call_calculate_return
    \/ Call_calculate_profit_margin
    \/ Call_calculate_transaction_fee
    \/ Call_calculate_portfolio_value
    \/ Call_create_account_balance
    \/ Call_apply_interest_to_balance
    \/ Call_apply_card_payment
    \/ Call_add_product_id
    \/ Call_validateEventSequence
    \/ Call_calculate_minimum_payment
    \/ Call_calculate_overdraft_fee
    \/ Call_calculate_debt_to_income_ratio
    \/ Call_calculate_utilization_ratio
    \/ Call_calculate_position_weight
    \/ Call_calculate_dividend_yield
    \/ Call_calculate_cost_basis_average
    \/ Call_calculate_expense_ratio
    \/ Call_sum_portfolio_dividends
    \/ Call_calculate_average_transaction
    \/ Call_calculate_average_balance
    \/ Call_calculate_monthly_payment
    \/ Enter_calculate_compound_interest_annual
    \/ Step_calculate_compound_interest_annual
    \/ Exit_calculate_compound_interest_annual
    \/ Enter_calculate_apy_from_apr
    \/ Step_calculate_apy_from_apr
    \/ Exit_calculate_apy_from_apr
    \/ Call_check_sufficient_funds

Spec == Init /\ [][Next]_vars

\* A call that is under way keeps running: the interpreter executes the
\* next statement of the function until it returns or raises.
SpecFair == Spec /\ WF_vars(Next)

\* the call of function name has returned
Returned(name) == pc = "done" /\ op = name

(* ------------------------------ claims --------------------------------- *)

Max0(x) == IF x < 0 THEN 0 ELSE x

\* C1 (as stated): for every balance b >= 0, every amount a and every
\* minimum m, process_withdrawal returns b - a when b - a >= m and
\* otherwise exactly b, and the result is never negative.
C1_AsStated ==
    Returned("process_withdrawal") /\ args[1] >= 0 =>
        /\ result = IF args[1] - args[2] >= args[3]
                    THEN args[1] - args[2] ELSE args[1]
        /\ result >= 0

\* C1 (amended): for every balance b >= 0, every amount a >= 0 and every
\* minimum m >= 0, process_withdrawal returns b - a when b - a >= m and
\* otherwise exactly b; a negative amount (with m >= 0) returns b, a
\* negative minimum returns 0; the result is never negative.
C1_Withdrawal ==
    Returned("process_withdrawal") /\ args[1] >= 0 =>
        /\ args[2] >= 0 /\ args[3] >= 0 =>
               result = IF args[1] - args[2] >= args[3]
                        THEN args[1] - args[2] ELSE args[1]
        /\ args[2] < 0 /\ args[3] >= 0 => result = args[1]
        /\ args[3] < 0 => result = 0
        /\ result >= 0

\* a withdrawal that lands exactly on the minimum balance is paid out
C1_Witness ==
    /\ Returned("process_withdrawal")
    /\ args[2] > 0 /\ args[3] > 0
    /\ args[1] - args[2] = args[3]
    /\ result = args[3]

\* C2: for all integer inputs the value returned by process_card_charge
\* lies in the closed interval [0, credit_limit].
C2_ChargeWithinLimit ==
    Returned("process_card_charge") =>
        0 <= result /\ result <= args[3]

\* C3 (as stated): process_transfer_source returns source - (amount + fee)
\* only when source >= amount + fee and otherwise returns source unchanged;
\* process_transfer_dest returns dest + amount only when approved = 1 and
\* otherwise returns dest unchanged.
C3_AsStated ==
    /\ Returned("process_transfer_source") =>
           LET debit == args[2] + args[3]
           IN  /\ result \in {args[1] - debit, args[1]}
               /\ result # args[1] => args[1] >= debit
               /\ args[1] < debit => result = args[1]
    /\ Returned("process_transfer_dest") =>
           /\ result \in {args[1] + args[2], args[1]}
           /\ result # args[1] => args[3] = 1
           /\ args[3] # 1 => result = args[1]

\* C3 (amended): for source >= 0, amount >= 0 and fee >= 0,
\* process_transfer_source returns source - (amount + fee) when
\* source >= amount + fee and otherwise source (a negative amount or fee
\* counts as 0); for dest >= 0 and amount >= 0, process_transfer_dest
\* returns dest + amount when approved = 1 and otherwise dest (a negative
\* amount is never credited); a negative balance gives 0 on either leg.
C3_TransferLegs ==
    /\ Returned("process_transfer_source") =>
           LET debit == Max0(args[2]) + Max0(args[3])
           IN  /\ args[1] >= 0 =>
                      result = IF args[1] >= debit
                               THEN args[1] - debit ELSE args[1]
               /\ args[1] < 0 => result = 0
    /\ Returned("process_transfer_dest") =>
           /\ args[1] >= 0 /\ args[2] >= 0 =>
                  result = IF args[3] = 1
                           THEN args[1] + args[2] ELSE args[1]
           /\ args[1] >= 0 /\ args[2] < 0 => result = args[1]
           /\ args[1] < 0 => result = 0

\* an affordable transfer with a fee: the source pays amount + fee
C3_Witness ==
    /\ Returned("process_transfer_source")
    /\ args[2] > 0 /\ args[3] > 0
    /\ args[1] > args[2] + args[3]
    /\ result = args[1] - args[2] - args[3]

\* C4 (as stated): the balance returned by process_withdrawal is never
\* negative and never below the supplied minimum_balance, for every current
\* balance, amount and minimum_balance.
C4_AsStated ==
    Returned("process_withdrawal") =>
        result >= 0 /\ result >= args[3]

\* C4 (amended): the balance returned by process_withdrawal is never
\* negative, and it is never below the supplied minimum_balance when the
\* current balance is not already below it; a withdrawal from a balance
\* below the minimum is denied and returns that balance unchanged.
C4_WithdrawalFloor ==
    Returned("process_withdrawal") =>
        /\ result >= 0
        /\ args[1] >= args[3] => result >= args[3]
        /\ 0 <= args[1] /\ args[1] < args[3] => result = args[1]

\* a withdrawal the balance could cover is denied because of the minimum
C4_Witness ==
    /\ Returned("process_withdrawal")
    /\ args[3] > 0 /\ args[1] > args[3]
    /\ 0 < args[2] /\ args[2] < args[1]
    /\ args[1] - args[2] < args[3]
    /\ result = args[1]

\* C5: calculate_return(initial, final) is 0 when initial <= 0, -10000 when
\* final < 0, and otherwise the quotient ((final - initial) * 10000) /
\* initial (rounded down) clamped below at -10000; for initial > 0 it is
\* always >= -10000, and calculate_return(100, 0) = -10000.
C5_Return ==
    Returned("calculate_return") =>
        LET initial == args[1]
            final == args[2]
            quotient == ((final - initial) * 10000) \div initial
        IN  /\ initial <= 0 => result = 0
            /\ initial > 0 /\ final < 0 => result = -10000
            /\ initial > 0 /\ final >= 0 =>
                   result = IF quotient < -10000 THEN -10000 ELSE quotient
            /\ initial > 0 => result >= -10000
            /\ initial = 100 /\ final = 0 => result = -10000

\* the documented full-loss scenario
C5_Witness ==
    /\ Returned("calculate_return")
    /\ args = <<100, 0>>
    /\ result = -10000

\* C6 (as stated): every division truncates toward zero, also with a
\* negative numerator: for initial > final >= 0 calculate_return is the
\* quotient (final - initial) * 10000 / initial rounded toward zero, and
\* for profit < 0 < revenue calculate_profit_margin is profit * 10000 /
\* revenue rounded toward zero (before the -10000 floor).
C6_AsStated ==
    /\ Returned("calculate_return") /\ args[1] > args[2] /\ args[2] >= 0 =>
           result = truncdiv((args[2] - args[1]) * 10000, args[1])
    /\ Returned("calculate_profit_margin") /\ args[1] < 0 /\ args[2] > 0 =>
           LET quotient == truncdiv(args[1] * 10000, args[2])
           IN  result = IF quotient < -10000 THEN -10000 ELSE quotient

\* C6 (amended): the divisions round toward negative infinity, which is
\* truncation toward zero only for a non-negative numerator or an exact
\* quotient: for initial > final >= 0 calculate_return is the greatest q
\* with q * initial <= (final - initial) * 10000, and for
\* profit < 0 < revenue calculate_profit_margin is the greatest q with
\* q * revenue <= profit * 10000 (before the -10000 floor).
C6_FloorDivision ==
    /\ Returned("calculate_return") /\ args[1] > args[2] /\ args[2] >= 0 =>
           LET numerator == (args[2] - args[1]) * 10000
           IN  /\ result * args[1] <= numerator
               /\ numerator < (result + 1) * args[1]
    /\ Returned("calculate_profit_margin") /\ args[1] < 0 /\ args[2] > 0 =>
           LET numerator == args[1] * 10000
           IN  /\ result >= -10000
               /\ result > -10000 =>
                      /\ result * args[2] <= numerator
                      /\ numerator < (result + 1) * args[2]
               /\ result = -10000 => numerator < -9999 * args[2]

\* a loss of two thirds: -6666.67 bps is returned as -6667, not -6666
C6_Witness ==
    /\ Returned("calculate_return")
    /\ args = <<3, 1>>
    /\ result = -6667

\* C7 (as stated): for every balance b, process_deposit(b, 0) = b and
\* apply_loan_payment(b, 0) = b.
C7_AsStated ==
    /\ Returned("process_deposit") /\ args[2] = 0 => result = args[1]
    /\ Returned("apply_loan_payment") /\ args[2] = 0 => result = args[1]

\* C7 (amended): for every balance b >= 0, process_deposit(b, 0) = b and
\* apply_loan_payment(b, 0) = b; for b < 0 both return 0.
C7_ZeroAmountNoOp ==
    /\ Returned("process_deposit") /\ args[2] = 0 =>
           result = Max0(args[1])
    /\ Returned("apply_loan_payment") /\ args[2] = 0 =>
           result = Max0(args[1])

\* a deposit of 0 into a positive balance
C7_Witness ==
    /\ Returned("process_deposit")
    /\ args[2] = 0 /\ args[1] > 0
    /\ result = args[1]

\* the charge was turned away: the call returned the balance without
\* applying the charge
Rejected(balance, charge, credit_limit) ==
    ~card_charge_outcome(balance, charge, credit_limit).applied

\* C8 (as stated): for a fixed balance and credit_limit, if
\* process_card_charge rejects a charge c, it rejects every charge c' > c.
C8_AsStated ==
    Returned("process_card_charge")
    /\ Rejected(args[1], args[2], args[3]) =>
        \A c2 \in ChargeVals :
            c2 > args[2] => Rejected(args[1], c2, args[3])

\* C8 (amended): for a fixed balance and credit_limit, if
\* process_card_charge rejects a charge c >= 0, it rejects every charge
\* c' > c; a negative charge is always rejected, whatever larger charges do.
C8_RejectionMonotone ==
    /\ Returned("process_card_charge") /\ args[2] >= 0
       /\ Rejected(args[1], args[2], args[3]) =>
           /\ result = Max0(args[1])
           /\ \A c2 \in ChargeVals :
                  c2 > args[2] => Rejected(args[1], c2, args[3])
    /\ Returned("process_card_charge") /\ args[2] < 0 =>
           Rejected(args[1], args[2], args[3])

\* a charge over the limit is declined on a card that has credit left, and
\* there are larger charges to compare with
C8_Witness ==
    /\ Returned("process_card_charge")
    /\ args[1] >= 0 /\ args[1] < args[3]
    /\ args[2] > 0 /\ args[1] + args[2] > args[3]
    /\ \E c2 \in ChargeVals : c2 > args[2]
    /\ result = args[1]

\* C9: authorize_charge(b, c, L) returns b + c when b + c <= L and
\* otherwise b, so (900, 50, 1000) gives 950 and (950, 100, 1000) gives 950,
\* and for b, c, L >= 0 it returns what process_card_charge(b, c, L) returns.
C9_AuthorizeCharge ==
    Returned("authorize_charge") =>
        /\ args[1] + args[2] <= args[3] => result = args[1] + args[2]
        /\ args[1] + args[2] > args[3] => result = args[1]
        /\ args = <<900, 50, 1000>> => result = 950
        /\ args = <<950, 100, 1000>> => result = 950
        /\ args[1] >= 0 /\ args[2] >= 0 /\ args[3] >= 0 =>
               result = process_card_charge(args[1], args[2], args[3])

\* the documented declined charge
C9_Witness ==
    /\ Returned("authorize_charge")
    /\ args = <<950, 100, 1000>>
    /\ result = 950

\* C10: calculate_minimum_balance maps type code 0 to 100, 1 to 500, 2 to
\* 2500, 3 to 1000, 4 and every other code to 0, and gives 0 for a negative
\* balance whatever the code; (1, 600) gives 500 and (99, 600) gives 0.
C10_MinimumBalance ==
    Returned("calculate_minimum_balance") =>
        /\ args[2] >= 0 =>
               /\ args[1] = 0 => result = 100
               /\ args[1] = 1 => result = 500
               /\ args[1] = 2 => result = 2500
               /\ args[1] = 3 => result = 1000
               /\ args[1] \notin {0, 1, 2, 3} => result = 0
        /\ args[2] < 0 => result = 0
        /\ args = <<1, 600>> => result = 500
        /\ args = <<99, 600>> => result = 0

\* the documented savings scenario
C10_Witness ==
    /\ Returned("calculate_minimum_balance")
    /\ args = <<1, 600>>
    /\ result = 500

\* C11: for amount >= 0, fee_bps >= 0 and min_fee >= 0,
\* calculate_transaction_fee returns (amount * fee_bps) / 10000 clamped into
\* [min_fee, max(max_fee, min_fee)]: never below min_fee, never above the
\* effective max; (10000, 250, 10, 100) gives 100.
C11_TransactionFee ==
    Returned("calculate_transaction_fee")
    /\ args[1] >= 0 /\ args[2] >= 0 /\ args[3] >= 0 =>
        LET raw == (args[1] * args[2]) \div 10000
            lo == args[3]
            hi == IF args[4] > args[3] THEN args[4] ELSE args[3]
        IN  /\ lo <= result /\ result <= hi
            /\ lo <= raw /\ raw <= hi => result = raw
            /\ raw < lo => result = lo
            /\ raw > hi => result = hi
            /\ args = <<10000, 250, 10, 100>> => result = 100

\* a fee of 3 meets a max_fee of 1 that lies below the min_fee of 2
C11_Witness ==
    /\ Returned("calculate_transaction_fee")
    /\ args = <<10000, 3, 2, 1>>
    /\ result = 2

\* the sum of f[i] over the indices i in the finite set I
RECURSIVE SumOver(_, _)
SumOver(I, f) ==
    IF I = {} THEN 0
    ELSE LET i == CHOOSE j \in I : TRUE
         IN  f[i] + SumOver(I \ {i}, f)

\* C12: calculate_portfolio_value(quantities, prices) is the sum of
\* quantities[i] * prices[i] over the indices below the shorter length at
\* which both entries are positive; entries past the shorter length never
\* contribute (([10,5],[100]) gives 1000) and the result is never negative.
C12_PortfolioValue ==
    Returned("calculate_portfolio_value") =>
        LET q == args[1]
            p == args[2]
            common == 1..(IF Len(q) <= Len(p) THEN Len(q) ELSE Len(p))
            both == {i \in common : q[i] > 0 /\ p[i] > 0}
        IN  /\ result = SumOver(both, [i \in both |-> q[i] * p[i]])
            /\ result >= 0
            /\ args = <<(<<10, 5>>), (<<100>>)>> => result = 1000

\* the documented length-mismatch scenario
C12_Witness ==
    /\ Returned("calculate_portfolio_value")
    /\ args = <<(<<10, 5>>), (<<100>>)>>
    /\ result = 1000

BalanceOperations ==
    {"create_account_balance", "process_deposit", "process_withdrawal",
     "apply_interest_to_balance", "process_transfer_source",
     "process_transfer_dest", "apply_loan_payment", "process_card_charge",
     "apply_card_payment"}

\* C14: for every integer input, negative ones included, each
\* balance-producing operation of bankingCoreSystem returns a value >= 0.
C14_BalancesNonNegative ==
    pc = "done" /\ op \in BalanceOperations => result >= 0

\* a card payment larger than the balance leaves a balance of 0
C14_Witness ==
    /\ Returned("apply_card_payment")
    /\ args[1] > 0 /\ args[2] > args[1]
    /\ result = 0

NoDuplicates(s) ==
    \A i, j \in 1..Len(s) : s[i] = s[j] => i = j

\* C15: whenever existing_ids contains no duplicates, the list returned by
\* add_product_id(existing_ids, new_id) contains no duplicates, for every
\* new_id.
C15_NoDuplicateIds ==
    Returned("add_product_id") /\ NoDuplicates(args[1]) =>
        NoDuplicates(result)

IsErrorOrResolution(code) == code \in {5, 9}

\* the 5s and 9s of s alternate, starting with a 5 and ending with a 9
Alternates(s) ==
    LET f == SelectSeq(s, IsErrorOrResolution)
    IN  /\ Len(f) % 2 = 0
        /\ \A i \in 1..Len(f) : f[i] = IF i % 2 = 1 THEN 5 ELSE 9

\* C16: validateEventSequence returns 1 exactly when, ignoring every code
\* other than 5 and 9, the 5s and 9s strictly alternate starting with a 5
\* and ending with a 9 (no error while one is pending, no resolution
\* without a pending error, none left pending at the end); otherwise 0.
C16_EventSequence ==
    Returned("validateEventSequence") =>
        result = IF Alternates(args[1]) THEN 1 ELSE 0

\* two error/resolution pairs in a row are accepted
C16_Witness ==
    /\ Returned("validateEventSequence")
    /\ args[1] = <<5, 9, 5, 9>>
    /\ result = 1

Greater(a, b) == IF a >= b THEN a ELSE b

Lesser(a, b) == IF a <= b THEN a ELSE b

\* C17: calculate_minimum_payment returns the greater of
\* (balance * pct_bps) / 10000 and the payment floor, capped at the full
\* balance and never below 0; so paying it with apply_card_payment never
\* leaves a negative balance (it leaves balance - payment).
C17_MinimumPayment ==
    Returned("calculate_minimum_payment") =>
        LET balance == args[1]
            pct_payment == (balance * args[2]) \div 10000
        IN  /\ result =
                   Greater(0, Lesser(balance, Greater(pct_payment, args[3])))
            /\ apply_card_payment(balance, result) >= 0
            /\ balance >= 0 =>
                   apply_card_payment(balance, result) = balance - result

\* the floor exceeds both the percentage and the balance: the whole
\* balance is due
C17_Witness ==
    /\ Returned("calculate_minimum_payment")
    /\ args[1] > 0 /\ args[3] > args[1]
    /\ result = args[1]

\* C18 (as stated): calculate_overdraft_fee returns fee_per_occurrence
\* unless overdraft_amount <= 0 or fees_today >= max_daily_fees, in which
\* case it returns 0.
C18_AsStated ==
    Returned("calculate_overdraft_fee") =>
        result = IF args[1] <= 0 \/ args[4] >= args[3] THEN 0 ELSE args[2]

\* C18 (amended): calculate_overdraft_fee returns fee_per_occurrence (flat,
\* whatever the overdraft size and the fees already charged) unless
\* overdraft_amount <= 0, fee_per_occurrence < 0 or
\* max(fees_today, 0) >= max(max_daily_fees, 0), in which case it returns 0.
C18_OverdraftFee ==
    Returned("calculate_overdraft_fee") =>
        result = IF \/ args[1] <= 0
                    \/ args[2] < 0
                    \/ Max0(args[4]) >= Max0(args[3])
                 THEN 0 ELSE args[2]

\* a second overdraft of the day, under the cap, costs the flat fee
C18_Witness ==
    /\ Returned("calculate_overdraft_fee")
    /\ args[1] > 1 /\ args[2] > 0
    /\ args[4] = 1 /\ args[3] = 2
    /\ result = args[2]

(* ----------------------- savings account client ----------------------- *)

\* Balances held by a client stay within 0..MaxBalance: a call that would
\* take the balance past MaxBalance is not made.
MaxBalance == 6

\* the client stores the balance a savings call returned
SavingsCall(name, a, new_balance) ==
    /\ new_balance <= MaxBalance
    /\ op' = name
    /\ args' = a
    /\ result' = new_balance
    /\ account' = [account EXCEPT !.balance = new_balance]
    /\ UNCHANGED <<pc, locals, heap>>

Savings_deposit ==
    \E amount \in Vals :
        SavingsCall("deposit", <<account.balance, amount>>,
                    savings_deposit(account.balance, amount))

Savings_withdraw ==
    \E amount \in Vals :
        SavingsCall("withdraw",
                    <<account.balance, amount, account.minimum_balance>>,
                    savings_withdraw(account.balance, amount,
                                     account.minimum_balance))

Savings_apply_interest ==
    \E interest \in Vals :
        SavingsCall("apply_interest", <<account.balance, interest>>,
                    savings_apply_interest(account.balance, interest))

InitSavings ==
    /\ pc = "done"
    /\ op = "open"
    /\ args = <<>>
    /\ result = 0
    /\ locals = <<>>
    /\ heap = <<>>
    /\ \E b \in 0..MaxBalance, m \in Vals :
           account = [balance |-> b, minimum_balance |-> m]

NextSavings ==
    \/ Savings_deposit
    \/ Savings_withdraw
    \/ Savings_apply_interest

SpecSavings == InitSavings /\ [][NextSavings]_vars

\* one savings call, as C19 describes it
C19_SavingsStep ==
    /\ account.balance >= 0
    /\ account'.balance >= 0
    /\ op' = "withdraw" =>
           LET removed == account.balance - account'.balance
               room == account.balance - account.minimum_balance
           IN  /\ removed >= 0
               /\ removed <= Max0(room)
    /\ account.balance >= account.minimum_balance =>
           account'.balance >= account'.minimum_balance
    /\ account'.minimum_balance = account.minimum_balance

\* C19: from a balance >= 0, under any sequence of deposit, withdraw (with
\* a fixed minimum_balance) and apply_interest calls with arbitrary integer
\* arguments, the balance is always >= 0; a withdraw never removes more
\* than balance - minimum_balance (nothing when the balance is below the
\* minimum), and a balance >= minimum_balance never falls below it.
C19_SavingsBalance == [][C19_SavingsStep]_vars

\* a withdrawal took the balance down to exactly the minimum
C19_Witness ==
    /\ op = "withdraw"
    /\ args[2] > 0 /\ args[3] > 0
    /\ args[1] - args[2] = args[3]
    /\ account.balance = args[3]

(* ---------------------------- wallet client ---------------------------- *)

\* The client holds two wallets and stores what each call returns.
Wallets == {"w1", "w2"}

WalletCall(name, a, r, new_account) ==
    /\ \A w \in Wallets : new_account[w] <= MaxBalance
    /\ op' = name
    /\ args' = a
    /\ result' = r
    /\ account' = new_account
    /\ UNCHANGED <<pc, locals, heap>>

Wallet_deposit ==
    \E w \in Wallets, amount \in Vals :
        LET r == wallet_deposit(account[w], amount)
        IN  WalletCall("deposit", <<account[w], amount>>, r,
                       [account EXCEPT ![w] = r])

Wallet_withdraw ==
    \E w \in Wallets, amount \in Vals :
        LET r == wallet_withdraw(account[w], amount)
        IN  WalletCall("withdraw", <<account[w], amount>>, r,
                       [account EXCEPT ![w] = r])

Wallet_transfer ==
    \E sender \in Wallets, amount \in Vals :
        \E receiver \in Wallets \ {sender} :
            LET r == wallet_transfer(account[sender], account[receiver],
                                     amount)
            IN  WalletCall("transfer",
                           <<account[sender], account[receiver], amount>>,
                           r,
                           [account EXCEPT ![sender] = r[1],
                                           ![receiver] = r[2]])

InitWallet ==
    /\ pc = "done"
    /\ op = "open"
    /\ args = <<>>
    /\ result = 0
    /\ locals = <<>>
    /\ heap = <<>>
    /\ account \in [Wallets -> 0..MaxBalance]

NextWallet ==
    \/ Wallet_deposit
    \/ Wallet_withdraw
    \/ Wallet_transfer

SpecWallet == InitWallet /\ [][NextWallet]_vars

\* one wallet call, as C20 describes it
C20_WalletStep ==
    /\ \A w \in Wallets : account[w] >= 0 /\ account'[w] >= 0
    /\ op' = "withdraw" /\ args'[2] > args'[1] => account' = account
    /\ op' = "transfer" /\ args'[3] > args'[1] => account' = account
    /\ op' = "transfer" =>
           /\ result'[1] + result'[2] = args'[1] + args'[2]
           /\ account'["w1"] + account'["w2"]
                  = account["w1"] + account["w2"]

\* C20: from non-negative balances, under any sequence of walletSecure
\* deposit, withdraw and transfer calls with arbitrary integer amounts,
\* every balance stays >= 0; a withdrawal or transfer larger than the
\* current balance leaves all balances unchanged; transfer preserves
\* sender_balance + receiver_balance.
C20_WalletSecure == [][C20_WalletStep]_vars

\* a transfer of the sender's whole balance went through
C20_Witness ==
    /\ op = "transfer"
    /\ args[3] > 0 /\ args[3] = args[1]
    /\ result = <<0, args[2] + args[3]>>
    /\ \E w \in Wallets : account[w] = 0

\* C13: every function of bankingCoreSystem is total: for all integer
\* arguments and finite integer sequences every call returns a value; no
\* path divides by zero or indexes out of range, and the loops of
\* calculate_compound_interest_annual and calculate_apy_from_apr end.
C13_Total == <>(pc = "done")

\* two years of compounding at 5% have run and the call has returned
C13_Witness ==
    /\ Returned("calculate_compound_interest_annual")
    /\ args = <<10000, 500, 2>>
    /\ result = 11025


(* --------------------------- portfolio client -------------------------- *)

\* The client makes at most MaxCalls buy_stock and sell_stock calls.
MaxCalls == 3

QuantityVals == {-1, 0, 1, 2}

PriceVals == {0, 1, 3}

\* what a portfolio holds: each symbol's quantity and avg_cost
contents(h, portfolio) == [s \in DOMAIN h.portfolios[portfolio] |-> h.positions[h.portfolios[portfolio][s]]]

\* the client calls name on its portfolio and keeps the one returned
PortfolioCall(name, symbol, quantity, price, r) ==
    /\ account.calls < MaxCalls
    /\ op' = name
    /\ args' = <<account.portfolio, symbol, quantity, price>>
    /\ result' = r.portfolio
    /\ heap' = r.heap
    /\ account' = [account EXCEPT !.portfolio = r.portfolio,
                                  !.calls = @ + 1]
    /\ UNCHANGED <<pc, locals>>

Portfolio_buy_stock ==
    \E symbol \in Symbols, quantity \in QuantityVals, price \in PriceVals :
        PortfolioCall("buy_stock", symbol, quantity, price,
                      buy_stock(heap, account.portfolio, symbol, quantity,
                                price))

Portfolio_sell_stock ==
    \E symbol \in Symbols, quantity \in QuantityVals, price \in PriceVals :
        PortfolioCall("sell_stock", symbol, quantity, price,
                      sell_stock(heap, account.portfolio, symbol, quantity,
                                 price))

\* The client keeps a second reference to the portfolio it holds now;
\* account.saved records what that portfolio held at this moment.
Portfolio_snapshot ==
    /\ account.snapshot = 0
    /\ account' = [account EXCEPT
                     !.snapshot = account.portfolio,
                     !.saved = contents(heap, account.portfolio)]
    /\ UNCHANGED <<op, args, result, pc, locals, heap>>

\* an empty portfolio, no snapshot taken
InitPortfolio ==
    /\ pc = "done"
    /\ op = "open"
    /\ args = <<>>
    /\ result = 0
    /\ locals = <<>>
    /\ heap = [portfolios |-> << <<>> >>, positions |-> <<>>]
    /\ account = [portfolio |-> 1, snapshot |-> 0, saved |-> <<>>,
                  calls |-> 0]

NextPortfolio ==
    \/ Portfolio_buy_stock
    \/ Portfolio_sell_stock
    \/ Portfolio_snapshot

SpecPortfolio == InitPortfolio /\ [][NextPortfolio]_vars

\* every symbol of the portfolio with reference p has quantity > 0
PositiveQuantities(h, p) == \A s \in DOMAIN h.portfolios[p] : h.positions[h.portfolios[p][s]].quantity > 0

\* one step of the client, as C21 describes it
C21_PortfolioStep ==
    /\ PositiveQuantities(heap, account.portfolio)
    /\ PositiveQuantities(heap', account'.portfolio)
    /\ op' = "sell_stock" /\ account'.calls # account.calls =>
           LET symbol == args'[2]
               quantity == args'[3]
               price == args'[4]
               before == contents(heap, account.portfolio)
               after == contents(heap', account'.portfolio)
               rejected == \/ quantity <= 0
                           \/ price <= 0
                           \/ symbol \notin DOMAIN before
                           \/ quantity > before[symbol].quantity
           IN  /\ rejected => /\ after = before
                              /\ result' = args'[1]
                              /\ heap' = heap
               /\ ~rejected /\ quantity = before[symbol].quantity =>
                      symbol \notin DOMAIN after
               /\ ~rejected /\ quantity < before[symbol].quantity =>
                      /\ symbol \in DOMAIN after
                      /\ after[symbol].quantity
                             = before[symbol].quantity - quantity

\* C21: after any sequence of buy_stock and sell_stock calls starting from
\* an empty portfolio, every symbol present has quantity > 0; sell_stock
\* returns the portfolio unchanged for a sale of more shares than owned, of
\* an unknown symbol, or with non-positive quantity or price, and removes
\* the symbol when its quantity reaches 0.
C21_PositiveQuantities == [][C21_PortfolioStep]_vars

\* a sale of all the shares of a symbol removed it from the portfolio
C21_Witness ==
    /\ op = "sell_stock"
    /\ args[3] > 0 /\ args[4] > 0
    /\ args[2] \in DOMAIN heap.portfolios[args[1]]
    /\ heap.positions[heap.portfolios[args[1]][args[2]]].quantity = args[3]
    /\ args[2] \notin DOMAIN heap.portfolios[account.portfolio]
    /\ account.portfolio = result


\* one step of the client, as C22 describes it
C22_CopyOnWriteStep ==
    /\ \A p \in 1..Len(heap.portfolios) :
           /\ heap'.portfolios[p] = heap.portfolios[p]
           /\ contents(heap', p) = contents(heap, p)
    /\ account'.snapshot # 0 =>
           contents(heap', account'.snapshot) = account'.saved
    /\ op' = "sell_stock" /\ account'.calls # account.calls =>
           LET before == contents(heap, account.portfolio)
               after == contents(heap', account'.portfolio)
           IN  \A s \in DOMAIN before \cap DOMAIN after :
                   after[s].avg_cost = before[s].avg_cost

\* C22: buy_stock and sell_stock are copy-on-write: neither call changes
\* the portfolio passed in (its set of symbols and each symbol's quantity
\* and avg_cost), so a snapshot taken before any sequence of later buys and
\* sells still holds its original contents; a sell leaves the symbol's
\* avg_cost unchanged.
C22_CopyOnWrite == [][C22_CopyOnWriteStep]_vars

\* a sale of part of a position was made on the portfolio of the snapshot:
\* the snapshot still holds the full position, the new portfolio the rest
C22_Witness ==
    /\ op = "sell_stock"
    /\ account.snapshot = args[1]
    /\ result # args[1]
    /\ args[2] \in DOMAIN account.saved
    /\ args[2] \in DOMAIN contents(heap, result)
    /\ contents(heap, account.snapshot) = account.saved
    /\ contents(heap, result)[args[2]].quantity
           = account.saved[args[2]].quantity - args[3]
    /\ contents(heap, result)[args[2]].avg_cost
           = account.saved[args[2]].avg_cost


(* ------------------------ wallet manager client ------------------------ *)

\* amounts passed to deposit and withdraw
AmountVals == {Finite(v) : v \in Vals} \cup {Inf, NegInf, NaN}

\* a call of a WalletManager method: the object keeps the new balance
WalletManagerCall(name, amount, r) ==
    /\ op' = name
    /\ args' = <<account.balance, amount>>
    /\ result' = r.returned
    /\ account' = [account EXCEPT !.balance = r.balance]
    /\ UNCHANGED <<pc, locals, heap>>

WalletManager_call_deposit ==
    \E amount \in AmountVals :
        WalletManagerCall("deposit", amount,
                          WalletManager_deposit(account.balance, amount))

WalletManager_call_withdraw ==
    \E amount \in AmountVals :
        WalletManagerCall("withdraw", amount,
                          WalletManager_withdraw(account.balance, amount))

\* WalletManager(initial_balance) with an integer initial_balance >= 0
InitWalletManager ==
    /\ pc = "done"
    /\ op = "__init__"
    /\ args = <<>>
    /\ result = FALSE
    /\ locals = <<>>
    /\ heap = <<>>
    /\ \E initial_balance \in 0..MaxFinite :
           account = [balance |-> WalletManager_init(initial_balance)]

NextWalletManager ==
    \/ WalletManager_call_deposit
    \/ WalletManager_call_withdraw

SpecWalletManager == InitWalletManager /\ [][NextWalletManager]_vars

\* the guard under which C23 says a call returns True
C23_Guard(name, balance, amount) ==
    IF name = "deposit" THEN float_gt(amount, Finite(0))
    ELSE float_gt(amount, Finite(0)) /\ float_ge(balance, amount)

\* C23 as stated: after any sequence of deposit and withdraw calls the
\* balance is >= 0; a call returns True exactly when it changed the
\* balance, which is for a deposit with amount > 0 and a withdraw with
\* 0 < amount <= balance; a call that returns False leaves the balance
\* unchanged.
C23_AsStatedStep ==
    /\ float_ge(account'.balance, Finite(0))
    /\ result' = TRUE <=> account'.balance # account.balance
    /\ result' = TRUE <=> C23_Guard(op', args'[1], args'[2])
    /\ result' = FALSE => account'.balance = account.balance

C23_AsStated == [][C23_AsStatedStep]_vars

\* one call, as the amended C23 describes it
C23_WalletManagerStep ==
    /\ args'[2] # Inf /\ float_ge(account.balance, Finite(0)) =>
           float_ge(account'.balance, Finite(0))
    /\ result' = TRUE <=> C23_Guard(op', args'[1], args'[2])
    /\ result' = FALSE => account'.balance = account.balance
    /\ result' = TRUE /\ op' = "deposit" =>
           account'.balance = float_add(account.balance, args'[2])
    /\ result' = TRUE /\ op' = "withdraw" =>
           account'.balance = float_sub(account.balance, args'[2])
    /\ account'.balance # account.balance => result' = TRUE

\* C23 (amended): for a WalletManager created with initial_balance >= 0,
\* the balance stays >= 0 under deposit and withdraw calls whose amount is
\* not infinite; a call returns True exactly for a deposit with amount > 0
\* and a withdraw with 0 < amount <= balance; a call that returns False
\* leaves the balance unchanged, and a call that returns True sets it to
\* the float nearest to balance + amount or balance - amount, which is the
\* old balance when the amount is below half the float spacing there.
C23_WalletManager == [][C23_WalletManagerStep]_vars

\* a deposit of 1 returned True on a balance of 2^MantissaBits and left the
\* balance as it was
C23_Witness ==
    /\ op = "deposit"
    /\ result = TRUE
    /\ args[2] = Finite(1)
    /\ args[1] = Finite(Pow2(MantissaBits))
    /\ account.balance = args[1]


(* --------------------------- transfer client --------------------------- *)

\* The client moves money between two accounts with the two transfer legs
\* of bankingCoreSystem: it calls process_transfer_source, keeps the fee
\* when the source was debited, then calls process_transfer_dest.  locals
\* holds the transfer under way.  The money in the model stays within
\* MaxBalance: a transfer that could take the total past it is not made.
Accounts == {"a", "b"}

\* amounts and fees of a transfer: amount >= 0, fee >= 0
TransferVals == 0..MaxVal

Total(acct) == acct.a + acct.b + acct.fees

\* the source leg; approved is what the client will pass to the
\* destination leg, checked tells whether it was computed from the source
\* leg's affordability
TransferSource(from, to, amount, fee, approved, checked) ==
    /\ pc = "done"
    /\ Total(account) + amount <= MaxBalance
    /\ LET r == process_transfer_source(account[from], amount, fee)
           debited == r = account[from] - (amount + fee)
       IN  /\ op' = "process_transfer_source"
           /\ args' = <<account[from], amount, fee>>
           /\ result' = r
           /\ account' = [account EXCEPT
                            ![from] = r,
                            !.fees = IF debited THEN @ + fee ELSE @,
                            !.unchecked = @ \/ ~checked]
    /\ locals' = [from |-> from, to |-> to, amount |-> amount, fee |-> fee,
                  approved |-> approved, checked |-> checked,
                  before |-> account]
    /\ pc' = "dest"
    /\ UNCHANGED heap

\* the client computes approved from the source leg's affordability
Transfer_source_checked ==
    \E from \in Accounts, amount \in TransferVals, fee \in TransferVals :
        \E to \in Accounts \ {from} :
            TransferSource(from, to, amount, fee,
                           IF account[from] >= amount + fee THEN 1 ELSE 0,
                           TRUE)

\* the client passes approved = 1 without looking at the source leg
Transfer_source_unchecked ==
    \E from \in Accounts, amount \in TransferVals, fee \in TransferVals :
        \E to \in Accounts \ {from} :
            TransferSource(from, to, amount, fee, 1, FALSE)

\* the destination leg of the transfer under way
Transfer_dest ==
    /\ pc = "dest"
    /\ LET r == process_transfer_dest(account[locals.to], locals.amount,
                                      locals.approved)
       IN  /\ op' = "process_transfer_dest"
           /\ args' = <<account[locals.to], locals.amount, locals.approved>>
           /\ result' = r
           /\ account' = [account EXCEPT ![locals.to] = r]
    /\ locals' = <<>>
    /\ pc' = "done"
    /\ UNCHANGED heap

InitTransfer ==
    /\ pc = "done"
    /\ op = "open"
    /\ args = <<>>
    /\ result = 0
    /\ locals = <<>>
    /\ heap = <<>>
    /\ \E a \in 0..MaxBalance, b \in 0..MaxBalance :
           /\ a + b <= MaxBalance
           /\ account = [a |-> a, b |-> b, fees |-> 0, total0 |-> a + b,
                      unchecked |-> FALSE]

NextTransfer ==
    \/ Transfer_source_checked
    \/ Transfer_source_unchecked
    \/ Transfer_dest

SpecTransfer == InitTransfer /\ [][NextTransfer]_vars

\* one step of the client, as C24 describes it
C24_TransferStep ==
    /\ pc' = "done" /\ ~account'.unchecked =>
           Total(account') = account'.total0
    /\ pc = "dest" /\ pc' = "done" =>
           LET before == locals.before
               source == before[locals.from]
               dest == before[locals.to]
               debit == locals.amount + locals.fee
               affordable == source >= debit
           IN  /\ locals.checked /\ affordable =>
                      /\ account'[locals.from] = source - debit
                      /\ account'[locals.to] = dest + locals.amount
                      /\ Total(account') = Total(before)
               /\ locals.checked /\ ~affordable =>
                      /\ account'[locals.from] = source
                      /\ account'[locals.to] = dest
                      /\ Total(account') = Total(before)
               /\ ~locals.checked /\ ~affordable =>
                      Total(account') = Total(before) + locals.amount

\* C24: when the caller sets approved = 1 exactly if the source leg was
\* affordable (source_balance >= amount + fee, with amount >= 0 and
\* fee >= 0) and 0 otherwise, then over any sequence of transfers between
\* accounts source + dest + fees collected is constant: a successful
\* transfer lowers the source by amount + fee and raises the destination by
\* amount, and a denied one changes neither; calling process_transfer_dest
\* with approved = 1 after a denied source leg increases the total by
\* amount.
C24_TransferConservation == [][C24_TransferStep]_vars

\* a checked transfer was credited to the destination, a fee has been
\* collected, and the total is still the opening total
C24_Witness ==
    /\ pc = "done"
    /\ op = "process_transfer_dest"
    /\ args[2] > 0 /\ args[3] = 1
    /\ result = args[1] + args[2]
    /\ ~account.unchecked
    /\ account.fees > 0
    /\ Total(account) = account.total0


(* ----------------------------- card client ----------------------------- *)

\* The client holds one card: a fixed credit_limit >= 0 and the balance
\* each call returns.
CardCall(name, a, new_balance) ==
    /\ op' = name
    /\ args' = a
    /\ result' = new_balance
    /\ account' = [account EXCEPT !.balance = new_balance]
    /\ UNCHANGED <<pc, locals, heap>>

Card_process_card_charge ==
    \E charge \in Vals :
        CardCall("process_card_charge",
                 <<account.balance, charge, account.credit_limit>>,
                 process_card_charge(account.balance, charge,
                                     account.credit_limit))

Card_apply_card_payment ==
    \E payment \in Vals :
        CardCall("apply_card_payment", <<account.balance, payment>>,
                 apply_card_payment(account.balance, payment))

\* the client asks for the credit left on the card; the balance stays
Card_calculate_available_credit ==
    /\ op' = "calculate_available_credit"
    /\ args' = <<account.credit_limit, account.balance>>
    /\ result' = calculate_available_credit(account.credit_limit,
                                            account.balance)
    /\ UNCHANGED <<account, pc, locals, heap>>

InitCard ==
    /\ pc = "done"
    /\ op = "open"
    /\ args = <<>>
    /\ result = 0
    /\ locals = <<>>
    /\ heap = <<>>
    /\ \E credit_limit \in 0..MaxBalance :
           \E balance \in 0..credit_limit :
               account = [balance |-> balance,
                          credit_limit |-> credit_limit]

NextCard ==
    \/ Card_process_card_charge
    \/ Card_apply_card_payment
    \/ Card_calculate_available_credit

SpecCard == InitCard /\ [][NextCard]_vars

\* one card call, as C25 describes it
C25_CardStep ==
    /\ account.balance >= 0 /\ account.balance <= account.credit_limit
    /\ account'.balance >= 0 /\ account'.balance <= account'.credit_limit
    /\ account'.credit_limit = account.credit_limit
    /\ op' = "calculate_available_credit" =>
           /\ result' = Max0(account.credit_limit - account.balance)
           /\ account' = account
    /\ op' = "process_card_charge" /\ args'[2] >= 0 =>
           LET available == calculate_available_credit(account.credit_limit,
                                                       account.balance)
           IN  /\ args'[2] <= available =>
                      account'.balance = account.balance + args'[2]
               /\ args'[2] > available =>
                      account'.balance = account.balance

\* C25: for a fixed credit_limit >= 0 and a starting card balance in
\* [0, credit_limit], after any sequence of process_card_charge and
\* apply_card_payment calls with arbitrary integer charges and payments the
\* balance stays in [0, credit_limit], and a charge c >= 0 is applied
\* exactly when c <= calculate_available_credit(credit_limit, balance).
C25_CardBalance == [][C25_CardStep]_vars

\* a charge of exactly the available credit took the balance to the limit
C25_Witness ==
    /\ op = "process_card_charge"
    /\ args[2] > 0
    /\ args[2] = calculate_available_credit(args[3], args[1])
    /\ account.balance = account.credit_limit
    /\ result = args[1] + args[2]


(* ----------------------------- loan client ----------------------------- *)

\* The client takes a loan with principal >= term_months > 0 and
\* annual_rate_bps >= 0, computes the monthly payment once, and then pays
\* it every month: the interest portion is computed on the balance, the
\* rest of the payment is applied to the balance.
LoanPrincipalVals == 1..MaxVal \cup {1200, 12000}

LoanRateVals == {0, 500, 1200}

LoanTermVals == 1..MaxVal \cup {12}

\* payment = calculate_monthly_payment(principal, rate, term_months)
Loan_calculate_monthly_payment ==
    /\ pc = "call"
    /\ op' = "calculate_monthly_payment"
    /\ args' = <<account.principal, account.annual_rate_bps,
                 account.term_months>>
    /\ result' = calculate_monthly_payment(account.principal,
                                           account.annual_rate_bps,
                                           account.term_months)
    /\ account' = [account EXCEPT !.payment = result']
    /\ pc' = "loop"
    /\ UNCHANGED <<locals, heap>>

\* one month: balance := apply_loan_payment(balance,
\*     calculate_principal_portion(payment,
\*         calculate_loan_interest_portion(balance, rate)))
Loan_month ==
    /\ pc = "loop"
    /\ LET interest == calculate_loan_interest_portion(
                           account.balance, account.annual_rate_bps)
           principal_payment == calculate_principal_portion(account.payment,
                                                            interest)
       IN  /\ op' = "apply_loan_payment"
           /\ args' = <<account.balance, principal_payment>>
           /\ result' = apply_loan_payment(account.balance,
                                           principal_payment)
           /\ account' = [account EXCEPT !.balance = result']
    /\ UNCHANGED <<pc, locals, heap>>

InitLoan ==
    /\ pc = "call"
    /\ op = "open"
    /\ args = <<>>
    /\ result = 0
    /\ locals = <<>>
    /\ heap = <<>>
    /\ \E principal \in LoanPrincipalVals, annual_rate_bps \in LoanRateVals :
           \E term_months \in LoanTermVals :
               /\ principal >= term_months
               /\ account = [principal |-> principal,
                             annual_rate_bps |-> annual_rate_bps,
                             term_months |-> term_months,
                             payment |-> 0,
                             balance |-> principal]

NextLoan ==
    \/ Loan_calculate_monthly_payment
    \/ Loan_month

\* the client keeps paying month after month
SpecLoan == InitLoan /\ [][NextLoan]_vars /\ WF_vars(NextLoan)

\* one step of the loan, as C26 describes it
C26_LoanStep ==
    /\ account'.balance <= account.balance
    /\ account'.balance >= 0
    /\ pc = "loop" /\ account.balance > 0 =>
           account'.balance < account.balance

\* C26: for principal >= term_months > 0 and annual_rate_bps >= 0, starting
\* from balance = principal and repeating each month balance :=
\* apply_loan_payment(balance, calculate_principal_portion(payment,
\* calculate_loan_interest_portion(balance, rate))) with the fixed payment =
\* calculate_monthly_payment(principal, rate, term_months), the balance
\* never increases, never goes negative, strictly decreases while positive
\* and eventually reaches 0.
C26_LoanPaidOff == [][C26_LoanStep]_vars /\ <>(account.balance = 0)

\* a 12-month loan of 12000 at 12% a year has been paid down to 0, the last
\* payment applied being smaller than the first
C26_Witness ==
    /\ op = "apply_loan_payment"
    /\ account.principal = 12000
    /\ account.annual_rate_bps = 1200
    /\ account.term_months = 12
    /\ account.payment = 1120
    /\ args[1] > 0
    /\ account.balance = 0


(* -------------------------- daily limit client ------------------------- *)

\* The client keeps the day's total for one daily_limit >= 0: it asks
\* check_transaction_limit about a transaction and adds the amount to
\* daily_total only when the answer is 1.
Daily_check_transaction_limit ==
    \E amount \in Vals :
        LET r == check_transaction_limit(amount, account.daily_total,
                                         account.daily_limit)
        IN  /\ op' = "check_transaction_limit"
            /\ args' = <<amount, account.daily_total, account.daily_limit>>
            /\ result' = r
            /\ account' = [account EXCEPT
                             !.daily_total = IF r = 1 THEN @ + amount
                                             ELSE @]
            /\ UNCHANGED <<pc, locals, heap>>

\* the client asks how much of the limit is left
Daily_calculate_remaining_daily_limit ==
    /\ op' = "calculate_remaining_daily_limit"
    /\ args' = <<account.daily_total, account.daily_limit>>
    /\ result' = calculate_remaining_daily_limit(account.daily_total,
                                                 account.daily_limit)
    /\ UNCHANGED <<account, pc, locals, heap>>

InitDaily ==
    /\ pc = "done"
    /\ op = "open"
    /\ args = <<>>
    /\ result = 0
    /\ locals = <<>>
    /\ heap = <<>>
    /\ \E daily_limit \in 0..MaxBalance :
           account = [daily_total |-> 0, daily_limit |-> daily_limit]

NextDaily ==
    \/ Daily_check_transaction_limit
    \/ Daily_calculate_remaining_daily_limit

SpecDaily == InitDaily /\ [][NextDaily]_vars

\* one step of the client, as C27 describes it
C27_DailyStep ==
    /\ account.daily_total <= account.daily_limit
    /\ account'.daily_total <= account'.daily_limit
    /\ account'.daily_limit = account.daily_limit
    /\ op' = "check_transaction_limit" /\ args'[1] >= 0 =>
           LET remaining == calculate_remaining_daily_limit(
                                account.daily_total, account.daily_limit)
           IN  (result' = 1) <=> (args'[1] <= remaining)
    /\ op' = "check_transaction_limit" => result' \in {0, 1}
    /\ op' = "calculate_remaining_daily_limit" =>
           result' = Max0(account.daily_limit - account.daily_total)

\* C27: if a transaction amount >= 0 is added to daily_total only when
\* check_transaction_limit(amount, daily_total, daily_limit) returns 1,
\* then starting from daily_total = 0 with daily_limit >= 0, daily_total
\* never exceeds daily_limit after any sequence of transactions, and in
\* every reachable state the check returns 1 exactly when
\* amount <= calculate_remaining_daily_limit(daily_total, daily_limit).
C27_DailyLimit == [][C27_DailyStep]_vars

\* a transaction of exactly the remaining allowance was let through on a
\* day that already had a total, and the day's total is now the limit
C27_Witness ==
    /\ op = "check_transaction_limit"
    /\ args[1] > 0 /\ args[2] > 0
    /\ args[1] = calculate_remaining_daily_limit(args[2], args[3])
    /\ result = 1
    /\ account.daily_total = account.daily_limit


\* C28: check_sufficient_funds and process_withdrawal agree: for
\* balance >= 0 and minimum_balance >= 0, check_sufficient_funds returns 1
\* iff amount <= 0 or balance - amount >= minimum_balance, and
\* process_withdrawal returns a balance different from its input only when
\* check_sufficient_funds returns 1 for the same arguments (and then
\* returns balance - amount).
C28_FundsAgree ==
    /\ Returned("check_sufficient_funds") /\ args[1] >= 0 /\ args[3] >= 0 =>
           /\ result \in {0, 1}
           /\ (result = 1) <=> (args[2] <= 0 \/ args[1] - args[2] >= args[3])
           /\ process_withdrawal(args[1], args[2], args[3]) # args[1] =>
                  /\ result = 1
                  /\ process_withdrawal(args[1], args[2], args[3])
                         = args[1] - args[2]
    /\ Returned("process_withdrawal") /\ args[1] >= 0 /\ args[3] >= 0 =>
           (result # args[1] =>
               /\ check_sufficient_funds(args[1], args[2], args[3]) = 1
               /\ result = args[1] - args[2])

\* a withdrawal down to exactly the minimum balance changed the balance,
\* which check_sufficient_funds allows
C28_Witness ==
    /\ Returned("process_withdrawal")
    /\ args[2] > 0 /\ args[3] > 0
    /\ args[1] - args[2] = args[3]
    /\ result = args[3]
    /\ check_sufficient_funds(args[1], args[2], args[3]) = 1


(* ------------------------ the two wallets side by side ----------------- *)

\* The client runs every operation on two pairs of wallets: account.secure
\* is kept with walletSecure.py, account.fixed with walletBuggy(fixed).py.
\* result holds what the two modules returned.
WalletPairCall(name, a, r_secure, r_fixed, new_secure, new_fixed) ==
    /\ \A w \in Wallets : new_secure[w] <= MaxBalance
    /\ \A w \in Wallets : new_fixed[w] <= MaxBalance
    /\ op' = name
    /\ args' = a
    /\ result' = <<r_secure, r_fixed>>
    /\ account' = [secure |-> new_secure, fixed |-> new_fixed]
    /\ UNCHANGED <<pc, locals, heap>>

WalletPair_deposit ==
    \E w \in Wallets, amount \in Vals :
        LET r_secure == wallet_deposit(account.secure[w], amount)
            r_fixed == walletfixed_deposit(account.fixed[w], amount)
        IN  WalletPairCall("deposit", <<w, amount>>, r_secure, r_fixed,
                           [account.secure EXCEPT ![w] = r_secure],
                           [account.fixed EXCEPT ![w] = r_fixed])

WalletPair_withdraw ==
    \E w \in Wallets, amount \in Vals :
        LET r_secure == wallet_withdraw(account.secure[w], amount)
            r_fixed == walletfixed_withdraw(account.fixed[w], amount)
        IN  WalletPairCall("withdraw", <<w, amount>>, r_secure, r_fixed,
                           [account.secure EXCEPT ![w] = r_secure],
                           [account.fixed EXCEPT ![w] = r_fixed])

WalletPair_transfer ==
    \E sender \in Wallets, amount \in Vals :
        \E receiver \in Wallets \ {sender} :
            LET r_secure == wallet_transfer(account.secure[sender],
                                            account.secure[receiver],
                                            amount)
                r_fixed == walletfixed_transfer(account.fixed[sender],
                                                account.fixed[receiver],
                                                amount)
            IN  WalletPairCall("transfer", <<sender, amount>>,
                               r_secure, r_fixed,
                               [account.secure EXCEPT
                                  ![sender] = r_secure[1],
                                  ![receiver] = r_secure[2]],
                               [account.fixed EXCEPT
                                  ![sender] = r_fixed[1],
                                  ![receiver] = r_fixed[2]])

\* both modules start from the same balances, of either sign
InitWalletPair ==
    /\ pc = "done"
    /\ op = "open"
    /\ args = <<>>
    /\ result = <<0, 0>>
    /\ locals = <<>>
    /\ heap = <<>>
    /\ \E balances \in [Wallets -> Vals] :
           account = [secure |-> balances, fixed |-> balances]

NextWalletPair ==
    \/ WalletPair_deposit
    \/ WalletPair_withdraw
    \/ WalletPair_transfer

SpecWalletPair == InitWalletPair /\ [][NextWalletPair]_vars

\* C29: the wallet of walletBuggy(fixed).py (which rejects only
\* amount < 0) and the wallet of walletSecure.py (which rejects
\* amount <= 0) are observationally equivalent: deposit, withdraw and
\* transfer return identical results for every integer balance and amount,
\* including amount = 0 and negative balances, so any sequence of
\* operations run on both yields the same balances.
C29_WalletsEquivalent ==
    /\ result[1] = result[2]
    /\ account.secure = account.fixed

\* a withdrawal of 0 from a negative balance, which walletSecure rejects by
\* its first test and walletBuggy(fixed) by its overdraft test
C29_Witness ==
    /\ op = "withdraw"
    /\ args[2] = 0
    /\ account.fixed[args[1]] < 0
    /\ result = <<account.fixed[args[1]], account.fixed[args[1]]>>

====
